---- MODULE Spec2Model ----
(***************************************************************************)
(* Model of the entity-resolution and consolidation engine of              *)
(* builddb/parse_SQL.py: name normalisation, nickname expansion, the       *)
(* similarity scorer, the professor matcher and the ingestion of           *)
(* professors, courses/sections and ratings into the relational tables.    *)
(*                                                                         *)
(* Strings are sequences of one-character strings.  Python's None is the   *)
(* value None below.  Floating-point similarities are exact fractions      *)
(* <<numerator, denominator>>.                                             *)
(***************************************************************************)
EXTENDS Integers, Sequences, FiniteSets, TLC

\* ------------------------------------------------------------------ bounds
\* longest candidate list handed to the matcher
MaxCands == 2
\* number of distinct set-iteration orders (hash seeds) considered
HashSeeds == 2
\* longest professor list loaded by an ingestion run
MaxProfs == 2
\* courses, sections and rating entries read by an ingestion run
MaxRecords == 4

\* ------------------------------------------------------------ Python values
None == <<"None">>

\* Python truthiness of an optional string: None and "" are falsy
Falsy(s) == s = None \/ s = <<>>

Whitespace == {" ", "\t"}

UpperCase == <<"A","B","C","D","E","F","G","H","I","J","K","L","M",
               "N","O","P","Q","R","S","T","U","V","W","X","Y","Z">>
LowerCase == <<"a","b","c","d","e","f","g","h","i","j","k","l","m",
               "n","o","p","q","r","s","t","u","v","w","x","y","z">>

\* the lower-case letter of every upper-case letter
ToLower == [c \in { UpperCase[i] : i \in DOMAIN UpperCase } |->
              LowerCase[CHOOSE i \in DOMAIN UpperCase : UpperCase[i] = c]]

\* str.lower(), one character
lower_char(c) == IF c \in DOMAIN ToLower THEN ToLower[c] ELSE c

\* str.lower()
lower(s) == [i \in 1..Len(s) |-> lower_char(s[i])]

RECURSIVE lstrip(_)
lstrip(s) == IF s # <<>> /\ Head(s) \in Whitespace THEN lstrip(Tail(s)) ELSE s

RECURSIVE rstrip(_)
rstrip(s) ==
  IF s # <<>> /\ s[Len(s)] \in Whitespace THEN rstrip(SubSeq(s, 1, Len(s) - 1)) ELSE s

\* str.strip()
strip(s) == rstrip(lstrip(s))

\* re.sub(r'\s+', ' ', s): every maximal whitespace run becomes one space
RECURSIVE collapse_spaces(_)
collapse_spaces(s) ==
  IF s = <<>> THEN <<>>
  ELSE IF Head(s) \in Whitespace
       THEN <<" ">> \o collapse_spaces(lstrip(s))
       ELSE <<Head(s)>> \o collapse_spaces(Tail(s))

\* the alternatives of the suffix patterns (jr|sr|ii|iii|iv|v|esq|phd|md)
SUFFIXES == { <<"j","r">>, <<"s","r">>, <<"i","i">>, <<"i","i","i">>, <<"i","v">>,
              <<"v">>, <<"e","s","q">>, <<"p","h","d">>, <<"m","d">> }

\* the start positions at which r'\s+(jr|...|md)\.?$' matches in s
SuffixMatchStarts(s) ==
  { i \in 1..Len(s) :
      /\ s[i] \in Whitespace
      /\ \E j \in i..Len(s) :
           /\ \A k \in i..j : s[k] \in Whitespace
           /\ \/ SubSeq(s, j + 1, Len(s)) \in SUFFIXES
              \/ /\ Len(s) > j + 1
                 /\ s[Len(s)] = "."
                 /\ SubSeq(s, j + 1, Len(s) - 1) \in SUFFIXES }

Min(S) == CHOOSE x \in S : \A y \in S : x <= y
Max(S) == CHOOSE x \in S : \A y \in S : y <= x

\* re.sub(r'\s+(jr|sr|ii|iii|iv|v|esq|phd|md)\.?$', '', s): the leftmost match,
\* which runs to the end of the string, is deleted
strip_suffix(s) ==
  IF SuffixMatchStarts(s) = {} THEN s ELSE SubSeq(s, 1, Min(SuffixMatchStarts(s)) - 1)

\* mutant: the periods are left in place
remove_periods_kept(s) == s

\* re.sub(r'\.', '', s)
RECURSIVE remove_periods(_)
remove_periods(s) ==
  IF s = <<>> THEN <<>>
  ELSE IF Head(s) = "." THEN remove_periods(Tail(s))
       ELSE <<Head(s)>> \o remove_periods(Tail(s))

normalize_name(name) ==
  IF Falsy(name) THEN <<>>
  ELSE remove_periods(strip_suffix(collapse_spaces(strip(lower(name)))))

\* str.split(): the whitespace-delimited tokens, in order
RECURSIVE split(_)
split(s) ==
  LET t == lstrip(s) IN
  IF t = <<>> THEN <<>>
  ELSE LET n == IF \E i \in 1..Len(t) : t[i] \in Whitespace
                THEN Min({ i \in 1..Len(t) : t[i] \in Whitespace }) - 1
                ELSE Len(t)
       IN <<SubSeq(t, 1, n)>> \o split(SubSeq(t, n + 1, Len(t)))

\* ' '.join(parts)
RECURSIVE join(_)
join(parts) ==
  IF parts = <<>> THEN <<>>
  ELSE IF Len(parts) = 1 THEN parts[1]
       ELSE parts[1] \o <<" ">> \o join(Tail(parts))

\* the items of the NICKNAME_MAP dict literal, in source order
NICKNAME_ITEMS == <<
       <<<<"m","i","k","e">>, <<"m","i","c","h","a","e","l">>>>,
       <<<<"m","i","k","e","y">>, <<"m","i","c","h","a","e","l">>>>,
       <<<<"m","i","c","k">>, <<"m","i","c","h","a","e","l">>>>,
       <<<<"b","o","b">>, <<"r","o","b","e","r","t">>>>,
       <<<<"b","o","b","b","y">>, <<"r","o","b","e","r","t">>>>,
       <<<<"r","o","b">>, <<"r","o","b","e","r","t">>>>,
       <<<<"r","o","b","b","y">>, <<"r","o","b","e","r","t">>>>,
       <<<<"d","i","c","k">>, <<"r","i","c","h","a","r","d">>>>,
       <<<<"r","i","c","k">>, <<"r","i","c","h","a","r","d">>>>,
       <<<<"r","i","c","h">>, <<"r","i","c","h","a","r","d">>>>,
       <<<<"b","i","l","l">>, <<"w","i","l","l","i","a","m">>>>,
       <<<<"w","i","l","l">>, <<"w","i","l","l","i","a","m">>>>,
       <<<<"b","i","l","l","y">>, <<"w","i","l","l","i","a","m">>>>,
       <<<<"j","i","m">>, <<"j","a","m","e","s">>>>,
       <<<<"j","i","m","m","y">>, <<"j","a","m","e","s">>>>,
       <<<<"t","o","m">>, <<"t","h","o","m","a","s">>>>,
       <<<<"t","o","m","m","y">>, <<"t","h","o","m","a","s">>>>,
       <<<<"d","a","v","e">>, <<"d","a","v","i","d">>>>,
       <<<<"d","a","v","e","y">>, <<"d","a","v","i","d">>>>,
       <<<<"d","a","n">>, <<"d","a","n","i","e","l">>>>,
       <<<<"d","a","n","n","y">>, <<"d","a","n","i","e","l">>>>,
       <<<<"c","h","r","i","s">>, <<"c","h","r","i","s","t","o","p","h","e","r">>>>,
       <<<<"c","h","u","c","k">>, <<"c","h","a","r","l","e","s">>>>,
       <<<<"c","h","a","r","l","i","e">>, <<"c","h","a","r","l","e","s">>>>,
       <<<<"e","d">>, <<"e","d","w","a","r","d">>>>,
       <<<<"e","d","d","i","e">>, <<"e","d","w","a","r","d">>>>,
       <<<<"t","e","d">>, <<"e","d","w","a","r","d">>>>,
       <<<<"t","e","d","d","y">>, <<"e","d","w","a","r","d">>>>,
       <<<<"j","o","e">>, <<"j","o","s","e","p","h">>>>,
       <<<<"j","o","e","y">>, <<"j","o","s","e","p","h">>>>,
       <<<<"j","o","h","n","n","y">>, <<"j","o","h","n">>>>,
       <<<<"j","o","n">>, <<"j","o","h","n">>>>,
       <<<<"j","a","c","k">>, <<"j","o","h","n">>>>,
       <<<<"p","a","t">>, <<"p","a","t","r","i","c","k">>>>,
       <<<<"p","a","t","t","y">>, <<"p","a","t","r","i","c","k">>>>,
       <<<<"p","e","t","e">>, <<"p","e","t","e","r">>>>,
       <<<<"s","t","e","v","e">>, <<"s","t","e","v","e","n">>>>,
       <<<<"s","t","e","v","e","n">>, <<"s","t","e","p","h","e","n">>>>,
       <<<<"s","t","e","v","e">>, <<"s","t","e","p","h","e","n">>>>,
       <<<<"a","l">>, <<"a","l","a","n">>>>,
       <<<<"a","l">>, <<"a","l","l","e","n">>>>,
       <<<<"a","l">>, <<"a","l","b","e","r","t">>>>,
       <<<<"a","l","e","x">>, <<"a","l","e","x","a","n","d","e","r">>>>,
       <<<<"a","n","d","y">>, <<"a","n","d","r","e","w">>>>,
       <<<<"d","r","e","w">>, <<"a","n","d","r","e","w">>>>,
       <<<<"b","e","n">>, <<"b","e","n","j","a","m","i","n">>>>,
       <<<<"b","e","n","n","i","e">>, <<"b","e","n","j","a","m","i","n">>>>,
       <<<<"f","r","a","n","k">>, <<"f","r","a","n","k","l","i","n">>>>,
       <<<<"f","r","a","n","k">>, <<"f","r","a","n","c","i","s">>>>,
       <<<<"f","r","e","d">>, <<"f","r","e","d","e","r","i","c","k">>>>,
       <<<<"g","r","e","g">>, <<"g","r","e","g","o","r","y">>>>,
       <<<<"j","e","f","f">>, <<"j","e","f","f","r","e","y">>>>,
       <<<<"j","e","f","f">>, <<"j","e","f","f","e","r","y">>>>,
       <<<<"k","e","n">>, <<"k","e","n","n","e","t","h">>>>,
       <<<<"k","e","n","n","y">>, <<"k","e","n","n","e","t","h">>>>,
       <<<<"l","a","r","r","y">>, <<"l","a","w","r","e","n","c","e">>>>,
       <<<<"m","a","t","t">>, <<"m","a","t","t","h","e","w">>>>,
       <<<<"n","a","t","e">>, <<"n","a","t","h","a","n">>>>,
       <<<<"n","a","t","e">>, <<"n","a","t","h","a","n","i","e","l">>>>,
       <<<<"n","i","c","k">>, <<"n","i","c","h","o","l","a","s">>>>,
       <<<<"p","a","u","l">>, <<"p","a","u","l">>>>,
       <<<<"p","h","i","l">>, <<"p","h","i","l","i","p">>>>,
       <<<<"p","h","i","l">>, <<"p","h","i","l","l","i","p">>>>,
       <<<<"r","a","y">>, <<"r","a","y","m","o","n","d">>>>,
       <<<<"r","o","n">>, <<"r","o","n","a","l","d">>>>,
       <<<<"r","o","n","n","y">>, <<"r","o","n","a","l","d">>>>,
       <<<<"s","a","m">>, <<"s","a","m","u","e","l">>>>,
       <<<<"s","c","o","t","t">>, <<"s","c","o","t","t">>>>,
       <<<<"s","e","a","n">>, <<"s","e","a","n">>>>,
       <<<<"s","h","a","w","n">>, <<"s","e","a","n">>>>,
       <<<<"t","i","m">>, <<"t","i","m","o","t","h","y">>>>,
       <<<<"t","i","m","m","y">>, <<"t","i","m","o","t","h","y">>>>,
       <<<<"t","o","n","y">>, <<"a","n","t","h","o","n","y">>>>,
       <<<<"v","i","n","c","e">>, <<"v","i","n","c","e","n","t">>>> >>

\* a dict literal keeps, for a repeated key, the value written last
NICKNAME_KEYS == { NICKNAME_ITEMS[i][1] : i \in DOMAIN NICKNAME_ITEMS }

NICKNAME_MAP ==
  [ k \in NICKNAME_KEYS |->
      NICKNAME_ITEMS[Max({ i \in DOMAIN NICKNAME_ITEMS : NICKNAME_ITEMS[i][1] = k })][2] ]

\* the set of variations built by expand_nickname
nickname_variations(name) ==
  LET name_lower == strip(lower(name)) IN
    {name_lower}
    \cup (IF name_lower \in NICKNAME_KEYS THEN {NICKNAME_MAP[name_lower]} ELSE {})
    \cup { nickname \in NICKNAME_KEYS : NICKNAME_MAP[nickname] = name_lower }

\* list(set(...)): the elements of S in an order that depends on the hash seed
RECURSIVE canonical_order(_)
canonical_order(S) ==
  IF S = {} THEN <<>>
  ELSE LET x == CHOOSE y \in S : TRUE IN <<x>> \o canonical_order(S \ {x})

Reverse(s) == [i \in 1..Len(s) |-> s[Len(s) + 1 - i]]

Rotate(s, k) ==
  IF s = <<>> THEN s ELSE [i \in 1..Len(s) |-> s[((i - 1 + k) % Len(s)) + 1]]

set_to_list(S, seed) ==
  LET base == Rotate(canonical_order(S), seed \div 2)
  IN IF seed % 2 = 1 THEN Reverse(base) ELSE base

\* mutant: the nickname table is never consulted
expand_nickname_self_only(name, seed) == <<strip(lower(name))>>

expand_nickname(name, seed) == set_to_list(nickname_variations(name), seed)

EmptyName == [first |-> <<>>, last |-> <<>>, middle |-> <<>>, suffix |-> <<>>]

parse_name(full_name) ==
  IF Falsy(full_name) \/ strip(full_name) = <<>> THEN EmptyName
  ELSE
    LET name  == normalize_name(full_name)
        parts == split(name)
        n     == Len(parts)
    IN
    IF n = 0 THEN EmptyName
    ELSE IF n = 1 THEN [EmptyName EXCEPT !.first = parts[1]]
    ELSE IF n = 2 THEN [EmptyName EXCEPT !.first = parts[1], !.last = parts[2]]
    ELSE IF parts[n] \in SUFFIXES
         THEN [first  |-> parts[1],
               last   |-> parts[n - 1],
               middle |-> IF n > 3 THEN join(SubSeq(parts, 2, n - 2)) ELSE <<>>,
               suffix |-> parts[n]]
         ELSE [first  |-> parts[1],
               last   |-> parts[n],
               middle |-> join(SubSeq(parts, 2, n - 1)),
               suffix |-> <<>>]

\* ---------------------------------------------------- difflib.SequenceMatcher
\* length of the common run of a from i and b from j, inside a[..ahi], b[..bhi]
RECURSIVE run_length(_, _, _, _, _, _)
run_length(a, b, i, j, ahi, bhi) ==
  IF i <= ahi /\ j <= bhi /\ a[i] = b[j]
  THEN 1 + run_length(a, b, i + 1, j + 1, ahi, bhi)
  ELSE 0

\* find_longest_match over a[alo..ahi], b[blo..bhi] (inclusive, 1-based): the
\* longest common block, the earliest in a, and of those the earliest in b
find_longest_match(a, b, alo, ahi, blo, bhi) ==
  LET blocks == { [i |-> i, j |-> j, size |-> run_length(a, b, i, j, ahi, bhi)] :
                    <<i, j>> \in { p \in (alo..ahi) \X (blo..bhi) : a[p[1]] = b[p[2]] } }
      earlier(x, y) == \/ x.size > y.size
                       \/ x.size = y.size /\ x.i < y.i
                       \/ x.size = y.size /\ x.i = y.i /\ x.j <= y.j
  IN IF blocks = {} THEN [i |-> alo, j |-> blo, size |-> 0]
     ELSE CHOOSE x \in blocks : \A y \in blocks : earlier(x, y)

\* the total size of get_matching_blocks over a[alo..ahi], b[blo..bhi]
RECURSIVE matching_size(_, _, _, _, _, _)
matching_size(a, b, alo, ahi, blo, bhi) ==
  IF alo > ahi \/ blo > bhi THEN 0
  ELSE LET m == find_longest_match(a, b, alo, ahi, blo, bhi) IN
       IF m.size = 0 THEN 0
       ELSE m.size
            + matching_size(a, b, alo, m.i - 1, blo, m.j - 1)
            + matching_size(a, b, m.i + m.size, ahi, m.j + m.size, bhi)

\* SequenceMatcher(None, a, b).ratio() = 2.0 * matches / (len(a) + len(b))
ratio(a, b) ==
  IF Len(a) + Len(b) = 0 THEN <<1, 1>>
  ELSE <<2 * matching_size(a, b, 1, Len(a), 1, Len(b)), Len(a) + Len(b)>>

\* ------------------------------------------------------------------ fractions
Less(x, y) == x[1] * y[2] < y[1] * x[2]
FMax(x, y) == IF Less(x, y) THEN y ELSE x
\* first_sim * 0.4 + last_sim * 0.6
Weighted(f, l) == <<4 * f[1] * l[2] + 6 * l[1] * f[2], 10 * f[2] * l[2]>>
BoostFloor == <<7, 10>>
GoodMatch == <<85, 100>>
Threshold == <<75, 100>>

ToSet(s) == { s[i] : i \in DOMAIN s }

\* mutant: without the guard on empty names
name_similarity_unguarded(name1, name2) ==
  LET norm1 == normalize_name(name1)
      norm2 == normalize_name(name2)
  IN IF norm1 = norm2 THEN <<1, 1>>
     ELSE LET similarity == ratio(norm1, norm2)
              parts1 == ToSet(split(norm1))
              parts2 == ToSet(split(norm2))
          IN IF parts1 \cap parts2 # {} THEN FMax(similarity, BoostFloor)
             ELSE similarity

name_similarity(name1, name2) ==
  IF Falsy(name1) \/ Falsy(name2) THEN <<0, 1>>
  ELSE
    LET norm1 == normalize_name(name1)
        norm2 == normalize_name(name2)
    IN IF norm1 = norm2 THEN <<1, 1>>
       ELSE LET similarity == ratio(norm1, norm2)
                parts1 == ToSet(split(norm1))
                parts2 == ToSet(split(norm2))
            IN IF parts1 \cap parts2 # {} THEN FMax(similarity, BoostFloor)
               ELSE similarity

\* ------------------------------------------------------ match_professor_name
\* the value standing for "return None" where an index is expected
NoMatch == -1

\* prof_first == instructor_first and prof_last == instructor_last
exact_rule(prof_first, prof_last, instructor_first, instructor_last) ==
  prof_first = instructor_first /\ prof_last = instructor_last

\* mutant: only the first pair of variations is compared
nickname_rule_first_pair(prof_first, prof_last, instructor_first, instructor_last, seed) ==
  /\ expand_nickname(instructor_first, seed)[1] = expand_nickname(prof_first, seed)[1]
  /\ prof_last = instructor_last

\* the double loop over the two variation lists
nickname_rule(prof_first, prof_last, instructor_first, instructor_last, seed) ==
  LET instructor_first_variations == expand_nickname(instructor_first, seed)
      prof_first_variations == expand_nickname(prof_first, seed)
  IN \E i \in DOMAIN instructor_first_variations :
       \E j \in DOMAIN prof_first_variations :
         /\ instructor_first_variations[i] = prof_first_variations[j]
         /\ prof_last = instructor_last

\* combined_sim, with the raise to 0.85 when both similarities exceed 0.7
combined_similarity(first_sim, last_sim) ==
  LET combined_sim == Weighted(first_sim, last_sim) IN
  IF Less(BoostFloor, first_sim) /\ Less(BoostFloor, last_sim)
  THEN FMax(combined_sim, GoodMatch)
  ELSE combined_sim

\* the score the fuzzy rule gives a candidate
candidate_score(prof, instructor_first, instructor_last) ==
  combined_similarity(name_similarity(instructor_first, normalize_name(prof.firstName)),
                      name_similarity(instructor_last, normalize_name(prof.lastName)))

\* mutant: the 0.75 floor is forgotten
is_new_best_no_floor(combined_sim, best_similarity) == Less(best_similarity, combined_sim)

\* mutant: a candidate that equals the best so far replaces it
is_new_best_on_ties(combined_sim, best_similarity) ==
  ~Less(combined_sim, best_similarity) /\ ~Less(combined_sim, Threshold)

\* combined_sim > best_similarity and combined_sim >= 0.75
is_new_best(combined_sim, best_similarity) ==
  Less(best_similarity, combined_sim) /\ ~Less(combined_sim, Threshold)

\* the for loop of match_professor_name from position idx (0-based) on
RECURSIVE scan_professors(_, _, _, _, _, _, _)
scan_professors(instructor_first, instructor_last, profs, seed, idx, best_match_idx, best_similarity) ==
  IF idx >= Len(profs) THEN best_match_idx
  ELSE
    LET prof == profs[idx + 1]
        prof_first == normalize_name(prof.firstName)
        prof_last == normalize_name(prof.lastName)
        combined_sim == candidate_score(prof, instructor_first, instructor_last)
    IN
    IF prof_first = <<>> \/ prof_last = <<>>
    THEN scan_professors(instructor_first, instructor_last, profs, seed, idx + 1,
                         best_match_idx, best_similarity)
    ELSE IF exact_rule(prof_first, prof_last, instructor_first, instructor_last)
    THEN idx
    ELSE IF nickname_rule(prof_first, prof_last, instructor_first, instructor_last, seed)
    THEN idx
    ELSE IF is_new_best(combined_sim, best_similarity)
    THEN scan_professors(instructor_first, instructor_last, profs, seed, idx + 1,
                         idx, combined_sim)
    ELSE scan_professors(instructor_first, instructor_last, profs, seed, idx + 1,
                         best_match_idx, best_similarity)

match_professor_name(name, profs, seed) ==
  IF Falsy(name) \/ strip(name) = <<>> THEN NoMatch
  ELSE
    LET instructor_parsed == parse_name(name)
        instructor_first == instructor_parsed.first
        instructor_last == instructor_parsed.last
    IN IF instructor_first = <<>> \/ instructor_last = <<>> THEN NoMatch
       ELSE scan_professors(instructor_first, instructor_last, profs, seed, 0,
                            NoMatch, <<0, 1>>)

\* ------------------------------------------------------------ input universes
\* a JSON null, or an absent key read with .get(), where a string id is expected
NullId == "null"

\* "not rmp_id": None and the empty string are falsy
FalsyId(x) == x = NullId \/ x = ""

RobertJohnson == [id |-> "p1", firstName |-> <<"R","o","b","e","r","t">>,
                               lastName  |-> <<"J","o","h","n","s","o","n">>]
JonDoeNoId    == [id |-> NullId, firstName |-> <<"J","o","n">>,
                                 lastName  |-> <<"D","o","e">>]
JohnDoe       == [id |-> "p1", firstName |-> <<"J","o","h","n">>,
                               lastName  |-> <<"D","o","e">>]
NamelessSmith == [id |-> "p3", firstName |-> None,
                               lastName  |-> <<"S","m","i","t","h">>]
JohnSmith     == [id |-> "p2", firstName |-> <<"J","o","h","n">>,
                               lastName  |-> <<"S","m","i","t","h">>]
JonSmith      == [id |-> "p4", firstName |-> <<"J","o","n">>,
                               lastName  |-> <<"S","m","i","t","h">>]
RobJohnson    == [id |-> "p5", firstName |-> <<"R","o","b">>,
                               lastName  |-> <<"J","o","h","n","s","o","n">>]

\* entries of byu_professors.json: one without id, two sharing an id, one
\* whose firstName is null
ProfessorRecords == { RobertJohnson, JonDoeNoId, JohnDoe, NamelessSmith }

\* the candidates handed to the matcher when it is exercised on its own
CandidatePool == ProfessorRecords \cup { JohnSmith, JonSmith, RobJohnson }

\* raw instructor_name values found on sections of courses.json
InstructorNames ==
  { None,
    <<>>,
    <<" "," ">>,
    <<"S","m","i","t","h">>,
    <<"J","o","h","n"," ","D","o","e">>,
    <<"J","a","c","k"," ","D","o","e">>,
    <<"B","o","b"," ","J","o","h","n","s","o","n">>,
    <<"J","."," ","S","m","i","t","h">>,
    <<"J","o","n"," ","S","m","y","t","h">>,
    <<"Z","e","d"," ","Q","u","u","x">>,
    <<"J","O","H","N"," "," ","Q","."," ","D","O","E"," ","J","R",".">>,
    <<"R","o","b","e","r","t"," ","J","o","h","n","s","o","n"," ","I","I"," ","P","h","D">> }

\* all sequences over S of length at most n
RECURSIVE SeqsUpTo(_, _)
SeqsUpTo(S, n) ==
  IF n = 0 THEN {<<>>}
  ELSE LET shorter == SeqsUpTo(S, n - 1)
       IN shorter \cup { Append(s, x) : s \in shorter, x \in S }

\* time blocks of a section's 'times' list; a block that is no JSON object
\* (a string, say) carries type "string"
BlockA == [type |-> "object", days |-> "MWF", start_time |-> "0900",
           end_time |-> "0950", building |-> "TMCB", room |-> "120"]
BlockB == [type |-> "object", days |-> "TTh", start_time |-> "1400",
           end_time |-> "1515", building |-> "JKB", room |-> "1102"]
BlockString == [type |-> "string", days |-> "", start_time |-> "",
                end_time |-> "", building |-> "", room |-> ""]

BobJohnsonRaw == <<"B","o","b"," ","J","o","h","n","s","o","n">>
ZedQuuxRaw == <<"Z","e","d"," ","Q","u","u","x">>
JohnDoeRaw == <<"J","o","h","n"," ","D","o","e">>

\* sections of courses.json; times_type is "null" when 'times' is null or absent
SectionRecords ==
  { [section_number |-> "001", instructor_name |-> BobJohnsonRaw, times_type |-> "list", times |-> <<BlockA>>],
    [section_number |-> "001", instructor_name |-> ZedQuuxRaw, times_type |-> "list", times |-> <<BlockB>>],
    [section_number |-> "002", instructor_name |-> JohnDoeRaw, times_type |-> "null", times |-> <<>>],
    [section_number |-> NullId, instructor_name |-> ZedQuuxRaw, times_type |-> "list", times |-> <<BlockA>>],
    [section_number |-> "003", instructor_name |-> None, times_type |-> "list", times |-> <<BlockString>>] }

\* the value of a course's 'sections' key: a list, or null
SectionsValues == {"list", "null"}

\* rating nodes of a teacher's ratings.edges
RatingA  == [typename |-> "Rating", id |-> "r1", comment |-> "great",
             ratingTags |-> <<"A","-","-","B">>]
RatingA2 == [typename |-> "Rating", id |-> "r1", comment |-> "poor",
             ratingTags |-> <<"C">>]
RatingB  == [typename |-> "Rating", id |-> "r2", comment |-> "fine",
             ratingTags |-> None]
RatingNoId == [typename |-> "Rating", id |-> NullId, comment |-> "lost",
               ratingTags |-> <<"A">>]

\* entries of ratings.json: data is "null" or a node, and the node's 'ratings'
\* is "null" or an object with edges
RatingEntries ==
  { [data |-> "null", typename |-> "", id |-> NullId, ratings |-> "object", edges |-> <<>>],
    [data |-> "node", typename |-> "Teacher", id |-> "p1", ratings |-> "object", edges |-> <<RatingA, RatingNoId>>],
    [data |-> "node", typename |-> "Teacher", id |-> "p1", ratings |-> "object", edges |-> <<RatingB, RatingA, RatingA2>>],
    [data |-> "node", typename |-> "Teacher", id |-> "p3", ratings |-> "object", edges |-> <<RatingB>>],
    [data |-> "node", typename |-> "Teacher", id |-> NullId, ratings |-> "object", edges |-> <<RatingB>>],
    [data |-> "node", typename |-> "Teacher", id |-> "p1", ratings |-> "null", edges |-> <<>>],
    [data |-> "node", typename |-> "School", id |-> "p1", ratings |-> "object", edges |-> <<RatingB>>] }

\* the loop variable of insert_ratings before the first iteration
NoEntry == [data |-> "none", typename |-> "", id |-> NullId, ratings |-> "object", edges |-> <<>>]

\* ---------------------------------------------------------------------- state
VARIABLES
  professors,       \* the list loaded from byu_professors.json
  instructor_name,  \* the raw string handed to the matcher
  returned,         \* the matcher calls observed so far: hash seed and result
  pc,               \* where main() is: professors, courses, ratings, done, crashed
  next_prof,        \* 0-based index of the next entry of professors to insert
  records_read,     \* courses, sections and rating entries read so far
  db_professors,    \* table professors
  db_courses,       \* table courses
  db_sections,      \* table sections
  db_section_times, \* table section_times
  db_ratings,       \* table ratings
  db_rating_tags,   \* table rating_tags
  db_name_variants, \* table professor_name_variants
  rmp_id_to_db_id,  \* dict returned by insert_professors
  instructor_to_prof_id,  \* the cache of insert_courses_and_sections
  course_db_id,     \* the course whose sections are being read (SqlNull: none)
  rating_entry,     \* the entry of ratings.json the loop of insert_ratings is at
  counters,         \* the counters printed at the end of each stage
  matcher_runs,     \* how often the matcher was run for each raw string
  source_files,     \* parse_SQL.main: can each of the three JSON files be loaded
  created_tables,   \* the tables create_tables has created
  artifacts,        \* the export files written so far
  build_pc,         \* where build_courses.main is
  courses_data,     \* build_courses: the course document being built
  normalized_count, \* normalize_schema: fields inserted by its last run
  output_file,      \* build_courses: what courses.json holds
  all_tables,       \* export: the table names of sqlite_master, ORDER BY name
  table_rows,       \* export: SELECT * FROM each table
  sql_script,       \* export: the statements of supabase_import.sql
  csv_files,        \* export: the text of csv_export/<table>.csv
  sql_value,        \* escape_sql_string: the argument
  sql_literal,      \* escape_sql_string: the text returned
  name1,            \* name_similarity: first argument
  name2,            \* name_similarity: second argument
  similarity,       \* name_similarity: the value returned (<<>>: not called yet)
  raw_name,         \* normalize_name: the argument
  normalized,       \* normalize_name: the string returned (None: not called yet)
  renormalized,     \* normalize_name called on its own result (None: not called yet)
  first_name_a,     \* expand_nickname: the first name of the instructor
  first_name_b,     \* expand_nickname: the first name of the professor
  variations_a,     \* expand_nickname(first_name_a) (<<>>: not called yet)
  variations_b,     \* expand_nickname(first_name_b) (<<>>: not called yet)
  first_names_match, \* did the double loop of the matcher find a pair, each way round
  tag_string,       \* insert_ratings: the ratingTags value of the rating being stored
  sql_file,         \* upload: the text of the file at path (None: there is no file)
  db_failures,      \* upload: the calls of cur.execute, counted from 1, that raise
  upload_pc,        \* upload: where run_large_sql_file is: idle, reading, done
  connection,       \* upload: the database connection: none, open, closed
  file_pos,         \* upload: how much of the file the loop has read
  statement,        \* upload: the lines accumulated since the last execute
  executed,         \* upload: the statements handed to cur.execute, in order
  printed,          \* upload: what was printed, in order
  fetch_pc,         \* get_reviews: where fetch_all_professor_reviews is
  after_cursor,     \* get_reviews: the cursor sent with the next request
  first_response,   \* get_reviews: the first response (NoResponse: none yet)
  all_edges,        \* get_reviews: the edges collected so far
  fetched,          \* get_reviews: the responses of the server, in order
  fetch_result      \* get_reviews: the value returned (NoResponse: none yet)

match_vars == <<professors, instructor_name, returned>>

tables == <<db_professors, db_courses, db_sections, db_section_times,
            db_ratings, db_rating_tags, db_name_variants>>

run_vars == <<pc, next_prof, records_read, rmp_id_to_db_id, instructor_to_prof_id,
              course_db_id, rating_entry, counters, matcher_runs>>

main_vars == <<source_files, created_tables, artifacts>>

build_vars == <<build_pc, courses_data, normalized_count, output_file>>

export_vars == <<all_tables, table_rows, sql_script, csv_files, sql_value, sql_literal>>

sim_vars == <<name1, name2, similarity>>

norm_vars == <<raw_name, normalized, renormalized>>

nick_vars == <<first_name_a, first_name_b, variations_a, variations_b, first_names_match>>

upload_vars == <<sql_file, db_failures, upload_pc, connection, file_pos, statement,
                 executed, printed>>

fetch_vars == <<fetch_pc, after_cursor, first_response, all_edges, fetched, fetch_result>>

tool_vars == <<norm_vars, nick_vars, tag_string, upload_vars, fetch_vars>>

other_vars == <<build_vars, export_vars, sim_vars, tool_vars>>

vars == <<match_vars, tables, run_vars, main_vars, other_vars>>

\* SQL NULL in an integer column, and "no row" from fetchone()
SqlNull == 0

ZeroCounters ==
  [sections_inserted |-> 0, times_inserted |-> 0, name_matches |-> 0,
   name_misses |-> 0, ratings_inserted |-> 0, tags_inserted |-> 0]

\* a fresh database and the locals of main() before the first stage
FreshRun ==
  /\ pc = "professors"
  /\ next_prof = 0
  /\ records_read = 0
  /\ db_professors = <<>>
  /\ db_courses = <<>>
  /\ db_sections = <<>>
  /\ db_section_times = <<>>
  /\ db_ratings = <<>>
  /\ db_rating_tags = <<>>
  /\ db_name_variants = <<>>
  /\ rmp_id_to_db_id = <<>>
  /\ instructor_to_prof_id = <<>>
  /\ course_db_id = SqlNull
  /\ rating_entry = NoEntry
  /\ counters = ZeroCounters
  /\ matcher_runs = <<>>

\* the tables of create_tables, in the order it creates them
TableNames ==
  <<"professors", "courses", "sections", "section_times", "ratings", "rating_tags",
    "professor_name_variants">>

\* the files main() loads, in the order it loads them
SourceFiles == <<"byu_professors.json", "courses.json", "ratings.json">>

\* main() has loaded the three files, connected and created the tables
DatabaseCreated ==
  /\ source_files = [f \in ToSet(SourceFiles) |-> "ok"]
  /\ created_tables = ToSet(TableNames)
  /\ artifacts = {}

\* build_courses.py is not running
BuildIdle ==
  /\ build_pc = "idle"
  /\ courses_data = <<>>
  /\ normalized_count = 0
  /\ output_file = <<>>

\* no export has been started
ExportIdle ==
  /\ all_tables = <<>>
  /\ table_rows = <<>>
  /\ sql_script = <<>>
  /\ csv_files = <<>>
  /\ sql_value = [t |-> "null"]
  /\ sql_literal = <<>>

\* name_similarity has not been called
SimilarityIdle ==
  /\ name1 = None
  /\ name2 = None
  /\ similarity = <<>>

\* normalize_name has not been called on its own
NormalizeIdle ==
  /\ raw_name = None
  /\ normalized = None
  /\ renormalized = None

\* expand_nickname has not been called on its own
NicknameIdle ==
  /\ first_name_a = <<>>
  /\ first_name_b = <<>>
  /\ variations_a = <<>>
  /\ variations_b = <<>>
  /\ first_names_match = <<>>

\* upload.py has not been started and there is no file for it
UploadIdle ==
  /\ sql_file = None
  /\ db_failures = {}
  /\ upload_pc = "idle"
  /\ connection = "none"
  /\ file_pos = 0
  /\ statement = <<>>
  /\ executed = <<>>
  /\ printed = <<>>

\* a response of the GraphQL server as fetch_all_professor_reviews reads it:
\* data and ratings are "object", "null" or "absent", node is the __typename of
\* data.node ("null": there is no node), the rest is ratings.edges and
\* ratings.pageInfo
Response(data, node, ratings, edges, hasNextPage, endCursor) ==
  [data |-> data, node |-> node, ratings |-> ratings, edges |-> edges,
   hasNextPage |-> hasNextPage, endCursor |-> endCursor, startCursor |-> "null",
   hasPreviousPage |-> FALSE]

\* first_response = None
NoResponse == Response("none", "null", "absent", <<>>, FALSE, "null")

\* get_reviews.py is not fetching
FetchIdle ==
  /\ fetch_pc = "idle"
  /\ after_cursor = "null"
  /\ first_response = NoResponse
  /\ all_edges = <<>>
  /\ fetched = <<>>
  /\ fetch_result = NoResponse

\* none of the stand-alone functions and scripts has been called
ToolsIdle == NormalizeIdle /\ NicknameIdle /\ tag_string = None /\ UploadIdle /\ FetchIdle

\* ----------------------------------------------- the matcher called on its own
MatchInit ==
  /\ professors \in SeqsUpTo(CandidatePool, MaxCands)
  /\ instructor_name \in InstructorNames
  /\ returned = {}
  /\ FreshRun
  /\ DatabaseCreated
  /\ BuildIdle /\ ExportIdle /\ SimilarityIdle /\ ToolsIdle

\* one call of match_professor_name, in a process with a hash seed not tried yet
MatchCall ==
  /\ \E seed \in 0..(HashSeeds - 1) :
       /\ \A r \in returned : r.seed # seed
       /\ returned' = returned \cup
            { [seed   |-> seed,
               result |-> match_professor_name(instructor_name, professors, seed)] }
  /\ UNCHANGED <<professors, instructor_name, tables, run_vars, main_vars, other_vars>>

MatchNext == MatchCall

SpecMatch == MatchInit /\ [][MatchNext]_vars

\* ----------------------------------------------------------------- the tables
\* Rows are records; rowid is the INTEGER PRIMARY KEY AUTOINCREMENT column
\* (professor_id, course_id, section_id, time_id, rating_id, tag_id, variant_id).
next_rowid(table) == IF table = <<>> THEN 1 ELSE table[Len(table)].rowid + 1

\* mutant: INSERT OR REPLACE, the conflicting rows give way to the new one
insert_or_replace(table, values, null_violation, conflicting) ==
  IF null_violation THEN table
  ELSE Append(SelectSeq(table, LAMBDA r : r.rowid \notin conflicting),
              [rowid |-> next_rowid(table)] @@ values)

\* INSERT OR IGNORE: a row that violates a NOT NULL or a UNIQUE constraint is
\* skipped; conflicting is the set of rowids the UNIQUE constraints collide with
insert_or_ignore(table, values, null_violation, conflicting) ==
  IF null_violation \/ conflicting # {} THEN table
  ELSE Append(table, [rowid |-> next_rowid(table)] @@ values)

\* INSERT into a table without constraints the values could violate
insert(table, values) == Append(table, [rowid |-> next_rowid(table)] @@ values)

\* SELECT <primary key> ... fetchone(): the first matching rowid, or no row
first_rowid(table, matching) ==
  IF matching = {} THEN SqlNull ELSE table[Min(matching)].rowid

\* positions of the rows of a table that satisfy WHERE column = ? [AND ...],
\* the columns and their values given as a record
Where(table, equals) ==
  { i \in DOMAIN table : \A column \in DOMAIN equals : table[i][column] = equals[column] }
RowIds(table, equals) == { table[i].rowid : i \in Where(table, equals) }

\* dict[key] = value
dict_set(d, key, value) ==
  [k \in DOMAIN d \cup {key} |-> IF k = key THEN value ELSE d[k]]

\* ------------------------------------------------------------ insert_professors
\* SELECT professor_id FROM professors WHERE rmp_id = ?
professor_row_id(table, rmp_id) ==
  first_rowid(table, Where(table, [rmp_id |-> rmp_id]))

\* one iteration of the loop of insert_professors
InsertProfessor ==
  /\ pc = "professors"
  /\ next_prof < Len(professors)
  /\ LET prof == professors[next_prof + 1]
         rmp_id == prof.id
         table == insert_or_ignore(
                    db_professors,
                    [rmp_id |-> rmp_id, first_name |-> prof.firstName,
                     last_name |-> prof.lastName],
                    prof.firstName = None \/ prof.lastName = None,
                    RowIds(db_professors, [rmp_id |-> rmp_id]))
         result == professor_row_id(table, rmp_id)
     IN IF FalsyId(rmp_id)
        THEN UNCHANGED <<db_professors, rmp_id_to_db_id>>
        ELSE /\ db_professors' = table
             /\ rmp_id_to_db_id' =
                  IF result # SqlNull THEN dict_set(rmp_id_to_db_id, rmp_id, result)
                  ELSE rmp_id_to_db_id
  /\ next_prof' = next_prof + 1
  /\ UNCHANGED <<match_vars, main_vars, other_vars, db_courses, db_sections, db_section_times, db_ratings,
                 db_rating_tags, db_name_variants, pc, records_read,
                 instructor_to_prof_id, course_db_id, rating_entry, counters, matcher_runs>>

\* the loop of insert_professors ends: commit, and main() goes on to the courses
FinishProfessors ==
  /\ pc = "professors"
  /\ next_prof = Len(professors)
  /\ pc' = "courses"
  /\ UNCHANGED <<match_vars, main_vars, other_vars, tables, next_prof, records_read, rmp_id_to_db_id,
                 instructor_to_prof_id, course_db_id, rating_entry, counters, matcher_runs>>

\* -------------------------------------------------- insert_courses_and_sections
\* the key of the n-th course of courses.json (the keys of a dict are distinct)
course_key_of(n) == 100 + n

\* an exception leaves main(): the connection is never committed, so the rows
\* written since the last commit are lost
CrashInCourses ==
  /\ pc' = "crashed"
  /\ db_courses' = <<>>
  /\ db_sections' = <<>>
  /\ db_section_times' = <<>>
  /\ db_name_variants' = <<>>
  /\ UNCHANGED <<match_vars, main_vars, other_vars, db_professors, db_ratings, db_rating_tags, next_prof,
                 rmp_id_to_db_id, instructor_to_prof_id, course_db_id, rating_entry, counters,
                 matcher_runs>>

\* the head of one iteration of the loop over courses.items(): the course row,
\* and sections = course_data.get('sections', [])
BeginCourse(sections) ==
  /\ pc = "courses"
  /\ records_read < MaxRecords
  /\ records_read' = records_read + 1
  /\ LET course_key == course_key_of(Len(db_courses) + 1)
         table == insert_or_ignore(
                    db_courses, [course_key |-> course_key], FALSE,
                    RowIds(db_courses, [course_key |-> course_key]))
         result == first_rowid(table, Where(table, [course_key |-> course_key]))
     IN IF sections = "null"
        THEN CrashInCourses   \* for section in None: TypeError
        ELSE /\ db_courses' = table
             /\ course_db_id' = result
             /\ UNCHANGED <<match_vars, main_vars, other_vars, db_professors, db_sections, db_section_times,
                            db_ratings, db_rating_tags, db_name_variants, pc, next_prof,
                            rmp_id_to_db_id, instructor_to_prof_id, rating_entry,
                            counters, matcher_runs>>

\* mutant: the index into the professor list is taken for the database id
resolved_professor_id_by_index(prof_idx, profs, id_map) == prof_idx

\* the database id of the matched professor, or SqlNull when the professor has
\* no id or no row: rmp_id and rmp_id in rmp_id_to_db_id
resolved_professor_id(prof_idx, profs, id_map) ==
  LET rmp_id == profs[prof_idx + 1].id IN
  IF ~FalsyId(rmp_id) /\ rmp_id \in DOMAIN id_map THEN id_map[rmp_id] ELSE SqlNull

\* "Try to match instructor name to a professor": what the section gets as
\* professor_db_id, and what becomes of the cache, the counters and the variants
resolve_instructor(name, profs, id_map, cache, count, variants, runs, seed) ==
  LET unchanged == [professor_db_id |-> SqlNull, cache |-> cache, counters |-> count,
                    variants |-> variants, runs |-> runs]
      ran == dict_set(runs, name, IF name \in DOMAIN runs THEN runs[name] + 1 ELSE 1)
      matched(professor_db_id) ==
        IF professor_db_id = SqlNull
        THEN [unchanged EXCEPT !.runs = ran]
        ELSE [professor_db_id |-> professor_db_id,
              cache    |-> dict_set(cache, name, professor_db_id),
              counters |-> [count EXCEPT !.name_matches = count.name_matches + 1],
              variants |-> insert(variants,
                            [professor_id |-> professor_db_id, variant_name |-> name,
                             source |-> "courses.json", match_confidence |-> <<9, 10>>]),
              runs     |-> ran]
      after_match(prof_idx) ==
        IF prof_idx = NoMatch
        THEN [unchanged EXCEPT !.runs = ran,
                               !.counters.name_misses = count.name_misses + 1]
        ELSE matched(resolved_professor_id(prof_idx, profs, id_map))
  IN
  IF Falsy(name) \/ strip(name) = <<>> THEN unchanged
  ELSE IF name \in DOMAIN cache THEN [unchanged EXCEPT !.professor_db_id = cache[name]]
  ELSE after_match(match_professor_name(name, profs, seed))

\* the INSERT INTO section_times of each block of times, in order
RECURSIVE insert_times(_, _, _)
insert_times(table, section_db_id, times) ==
  IF times = <<>> THEN table
  ELSE insert_times(
         insert(table, [section_id |-> section_db_id, days |-> Head(times).days,
                        start_time |-> Head(times).start_time,
                        end_time |-> Head(times).end_time,
                        building |-> Head(times).building, room |-> Head(times).room]),
         section_db_id, Tail(times))

\* one iteration of the loop over the sections of the current course
InsertSection(section) ==
  /\ pc = "courses"
  /\ course_db_id # SqlNull
  /\ records_read < MaxRecords
  /\ records_read' = records_read + 1
  /\ \E seed \in 0..(HashSeeds - 1) :
     \E resolved \in { resolve_instructor(section.instructor_name, professors,
                          rmp_id_to_db_id, instructor_to_prof_id, counters,
                          db_name_variants, matcher_runs, seed) } :
     LET table == insert_or_ignore(
                    db_sections,
                    [course_id |-> course_db_id,
                     section_number |-> section.section_number,
                     instructor_name |-> section.instructor_name,
                     professor_id |-> resolved.professor_db_id],
                    section.section_number = NullId,
                    RowIds(db_sections,
                           [course_id |-> course_db_id,
                            section_number |-> section.section_number]))
         section_db_id ==
           IF section.section_number = NullId THEN SqlNull  \* "= NULL" selects no row
           ELSE first_rowid(table, Where(table,
                  [course_id |-> course_db_id,
                   section_number |-> section.section_number]))
         times == IF section.times_type = "list" THEN section.times ELSE <<>>
         bad == { i \in DOMAIN times : times[i].type # "object" }
     IN IF section_db_id = SqlNull
        THEN /\ db_sections' = table
             /\ db_name_variants' = resolved.variants
             /\ instructor_to_prof_id' = resolved.cache
             /\ counters' = resolved.counters
             /\ matcher_runs' = resolved.runs
             /\ UNCHANGED <<match_vars, main_vars, other_vars, db_professors, db_courses, db_section_times,
                            db_ratings, db_rating_tags, pc, next_prof, rmp_id_to_db_id,
                            course_db_id, rating_entry>>
        ELSE IF bad # {}
        THEN \* time_block.get on a value that is no dict: AttributeError
             /\ pc' = "crashed"
             /\ db_courses' = <<>>
             /\ db_sections' = <<>>
             /\ db_section_times' = <<>>
             /\ db_name_variants' = <<>>
             /\ instructor_to_prof_id' = resolved.cache
             /\ counters' = [resolved.counters EXCEPT
                  !.sections_inserted = @ + 1, !.times_inserted = @ + Min(bad) - 1]
             /\ matcher_runs' = resolved.runs
             /\ UNCHANGED <<match_vars, main_vars, other_vars, db_professors, db_ratings, db_rating_tags,
                            next_prof, rmp_id_to_db_id, course_db_id, rating_entry>>
        ELSE /\ db_sections' = table
             /\ db_section_times' = insert_times(db_section_times, section_db_id, times)
             /\ db_name_variants' = resolved.variants
             /\ instructor_to_prof_id' = resolved.cache
             /\ counters' = [resolved.counters EXCEPT
                  !.sections_inserted = @ + 1, !.times_inserted = @ + Len(times)]
             /\ matcher_runs' = resolved.runs
             /\ UNCHANGED <<match_vars, main_vars, other_vars, db_professors, db_courses, db_ratings,
                            db_rating_tags, pc, next_prof, rmp_id_to_db_id,
                            course_db_id, rating_entry>>

\* the loop over courses.items() ends: commit, and main() goes on to the ratings
FinishCourses ==
  /\ pc = "courses"
  /\ pc' = "ratings"
  /\ course_db_id' = SqlNull
  /\ UNCHANGED <<match_vars, main_vars, other_vars, tables, next_prof, records_read, rmp_id_to_db_id,
                 instructor_to_prof_id, rating_entry, counters, matcher_runs>>

\* ---------------------------------------------------------------- insert_ratings
\* str.split('--'): the segments between non-overlapping "--", left to right
RECURSIVE split_dashes(_)
split_dashes(s) ==
  LET cuts == { i \in 1..(Len(s) - 1) : s[i] = "-" /\ s[i + 1] = "-" } IN
  IF cuts = {} THEN <<s>>
  ELSE <<SubSeq(s, 1, Min(cuts) - 1)>> \o split_dashes(SubSeq(s, Min(cuts) + 2, Len(s)))

\* mutant: the segments are neither trimmed nor dropped when empty
tag_names_untrimmed(rating_tags) ==
  IF Falsy(rating_tags) THEN <<>> ELSE split_dashes(rating_tags)

\* [tag.strip() for tag in rating_tags.split('--') if tag.strip()]
tag_names(rating_tags) ==
  IF Falsy(rating_tags) THEN <<>>
  ELSE LET parts == split_dashes(rating_tags)
           stripped == [i \in DOMAIN parts |-> strip(parts[i])]
       IN SelectSeq(stripped, LAMBDA t : t # <<>>)

RECURSIVE insert_tags(_, _, _)
insert_tags(table, rating_db_id, names) ==
  IF names = <<>> THEN table
  ELSE insert_tags(insert(table, [rating_id |-> rating_db_id, tag_name |-> Head(names)]),
                   rating_db_id, Tail(names))

\* mutant: only a missing id is checked, not whether a Professor row exists
owner_missing_id_only(rmp_id, id_map) == FalsyId(rmp_id)

\* not rmp_id or rmp_id not in rmp_id_to_db_id
owner_unknown(rmp_id, id_map) == FalsyId(rmp_id) \/ rmp_id \notin DOMAIN id_map

\* the loop over the edges of one teacher node
RECURSIVE insert_edges(_, _, _, _, _)
insert_edges(edges, professor_db_id, ratings, tags, count) ==
  IF edges = <<>> THEN [ratings |-> ratings, tags |-> tags, counters |-> count]
  ELSE
    LET rating_node == Head(edges)
        rmp_rating_id == rating_node.id
        table == insert_or_ignore(
                   ratings,
                   [professor_id |-> professor_db_id, rmp_rating_id |-> rmp_rating_id,
                    comment |-> rating_node.comment],
                   professor_db_id = SqlNull,
                   RowIds(ratings, [rmp_rating_id |-> rmp_rating_id]))
        rating_db_id ==
          first_rowid(table, Where(table, [rmp_rating_id |-> rmp_rating_id]))
        names == tag_names(rating_node.ratingTags)
    IN
    IF rating_node.typename # "Rating" \/ FalsyId(rmp_rating_id)
    THEN insert_edges(Tail(edges), professor_db_id, ratings, tags, count)
    ELSE IF rating_db_id = SqlNull
    THEN insert_edges(Tail(edges), professor_db_id, table, tags, count)
    ELSE insert_edges(Tail(edges), professor_db_id, table,
                      insert_tags(tags, rating_db_id, names),
                      [count EXCEPT !.ratings_inserted = @ + 1,
                                    !.tags_inserted = @ + Len(names)])

\* one iteration of the loop over the entries of ratings.json
InsertRatingEntry(entry) ==
  /\ pc = "ratings"
  /\ records_read < MaxRecords
  /\ records_read' = records_read + 1
  /\ rating_entry' = entry
  /\ LET rmp_id == entry.id
         professor_db_id ==
           IF rmp_id \in DOMAIN rmp_id_to_db_id THEN rmp_id_to_db_id[rmp_id] ELSE SqlNull
         done == insert_edges(entry.edges, professor_db_id, db_ratings, db_rating_tags,
                              counters)
     IN IF entry.data = "null"
           \/ (entry.typename = "Teacher" /\ ~owner_unknown(rmp_id, rmp_id_to_db_id)
               /\ entry.ratings = "null")
        THEN \* None.get(...): AttributeError; nothing since the last commit is kept
             /\ pc' = "crashed"
             /\ db_ratings' = <<>>
             /\ db_rating_tags' = <<>>
             /\ UNCHANGED counters
        ELSE IF entry.typename # "Teacher" \/ owner_unknown(rmp_id, rmp_id_to_db_id)
        THEN UNCHANGED <<pc, db_ratings, db_rating_tags, counters>>
        ELSE /\ db_ratings' = done.ratings
             /\ db_rating_tags' = done.tags
             /\ counters' = done.counters
             /\ UNCHANGED pc
  /\ UNCHANGED <<match_vars, main_vars, other_vars, db_professors, db_courses, db_sections, db_section_times,
                 db_name_variants, next_prof, rmp_id_to_db_id, instructor_to_prof_id,
                 course_db_id, matcher_runs>>

\* the loop over the rating entries ends: commit, summary and export follow
FinishRatings ==
  /\ pc = "ratings"
  /\ pc' = "done"
  /\ UNCHANGED <<match_vars, main_vars, other_vars, tables, next_prof, records_read, rmp_id_to_db_id,
                 instructor_to_prof_id, course_db_id, rating_entry, counters,
                 matcher_runs>>

\* ------------------------------------------------------------ an ingestion run
Init ==
  /\ professors \in SeqsUpTo(ProfessorRecords, MaxProfs)
  /\ instructor_name = None
  /\ returned = {}
  /\ FreshRun
  /\ DatabaseCreated
  /\ BuildIdle /\ ExportIdle /\ SimilarityIdle /\ ToolsIdle

Next ==
  \/ InsertProfessor
  \/ FinishProfessors
  \/ \E sections \in SectionsValues : BeginCourse(sections)
  \/ \E section \in SectionRecords : InsertSection(section)
  \/ FinishCourses
  \/ \E entry \in RatingEntries : InsertRatingEntry(entry)
  \/ FinishRatings

Spec == Init /\ [][Next]_vars

\* -------------------------------------------------------------- parse_SQL.main
\* what open() and json.load() make of a source file
FileStatus == {"ok", "missing", "malformed"}

\* mutant: the database is opened and its tables created before the files are loaded
main_steps_database_first ==
  <<"create_tables", "load_professors", "load_courses", "load_ratings">>

\* the calls of main() before the first insert, in the order main() makes them
main_steps == <<"load_professors", "load_courses", "load_ratings", "create_tables">>

\* the step main() goes to when a step returns; insert_professors follows the last
next_step(step) ==
  LET i == CHOOSE k \in DOMAIN main_steps : main_steps[k] = step
  IN IF i < Len(main_steps) THEN main_steps[i + 1] ELSE "professors"

\* the file a load step opens
file_of(step) ==
  CASE step = "load_professors" -> "byu_professors.json"
    [] step = "load_courses"    -> "courses.json"
    [] step = "load_ratings"    -> "ratings.json"

\* load_professors, load_courses, load_ratings: open() or json.load() raises on a
\* file that is missing or malformed, and nothing in main() catches it
LoadDocument ==
  /\ pc \in {"load_professors", "load_courses", "load_ratings"}
  /\ pc' = IF source_files[file_of(pc)] = "ok" THEN next_step(pc) ELSE "aborted"
  /\ UNCHANGED <<match_vars, tables, next_prof, records_read, rmp_id_to_db_id,
                 instructor_to_prof_id, course_db_id, rating_entry, counters,
                 matcher_runs, main_vars, other_vars>>

\* conn = sqlite3.connect(DB_FILE); create_tables(conn)
CreateDatabase ==
  /\ pc = "create_tables"
  /\ created_tables' = ToSet(TableNames)
  /\ pc' = next_step(pc)
  /\ UNCHANGED <<match_vars, tables, next_prof, records_read, rmp_id_to_db_id,
                 instructor_to_prof_id, course_db_id, rating_entry, counters,
                 matcher_runs, source_files, artifacts, other_vars>>

\* the files export_to_postgresql and export_to_csv write, one CSV file for each
\* table; what the files hold is modelled by ExportToPostgresql and ExportToCsv
export_files(table_names) ==
  { [dir |-> "sql_export", name |-> "supabase_import.sql"],
    [dir |-> "sql_export", name |-> "schema.sql"] }
    \cup { [dir |-> "csv_export", name |-> t] : t \in table_names }

\* the summary, export_to_postgresql(conn) and export_to_csv(conn)
ExportDatabase ==
  /\ pc = "done"
  /\ artifacts' = export_files(created_tables)
  /\ pc' = "exported"
  /\ UNCHANGED <<match_vars, tables, next_prof, records_read, rmp_id_to_db_id,
                 instructor_to_prof_id, course_db_id, rating_entry, counters,
                 matcher_runs, source_files, created_tables, other_vars>>

\* main() from its first statement, on some state of the three source files
PipelineCatalogs == { <<>>, <<RobertJohnson, JohnDoe>> }

MainInit ==
  /\ professors \in PipelineCatalogs
  /\ instructor_name = None
  /\ returned = {}
  /\ pc = Head(main_steps)
  /\ next_prof = 0
  /\ records_read = 0
  /\ db_professors = <<>>
  /\ db_courses = <<>>
  /\ db_sections = <<>>
  /\ db_section_times = <<>>
  /\ db_ratings = <<>>
  /\ db_rating_tags = <<>>
  /\ db_name_variants = <<>>
  /\ rmp_id_to_db_id = <<>>
  /\ instructor_to_prof_id = <<>>
  /\ course_db_id = SqlNull
  /\ rating_entry = NoEntry
  /\ counters = ZeroCounters
  /\ matcher_runs = <<>>
  /\ source_files \in [ToSet(SourceFiles) -> FileStatus]
  /\ created_tables = {}
  /\ artifacts = {}
  /\ BuildIdle /\ ExportIdle /\ SimilarityIdle /\ ToolsIdle

MainNext ==
  \/ LoadDocument
  \/ CreateDatabase
  \/ Next
  \/ ExportDatabase

SpecMain == MainInit /\ [][MainNext]_vars

\* ------------------------------------------------------------ build_courses.py
\* JSON values: null, a string, a list, and an object (a Python dict) as a
\* function from its keys to their values
Null == [t |-> "null"]
Text(s) == [t |-> "str", s |-> s]
List(xs) == [t |-> "list", items |-> xs]
Dict(d) == [t |-> "dict", fields |-> d]

\* Python truthiness: None, '', [] and {} are falsy
truthy(v) ==
  CASE v.t = "null" -> FALSE
    [] v.t = "str"  -> v.s # ""
    [] v.t = "list" -> v.items # <<>>
    [] v.t = "dict" -> DOMAIN v.fields # {}

\* bounds of the course document
MaxCourses == 2

course_fields ==
  <<"catalog_number", "catalog_suffix", "curriculum_id", "dept_name", "full_title",
    "sections", "title", "title_code", "year_term">>

section_fields ==
  <<"credit_hours", "credit_type", "fixed_or_variable", "honors", "instructor_id",
    "instructor_name", "minimum_credit_hours", "mode", "mode_desc", "section_number",
    "section_type", "times">>

time_fields == <<"building", "days", "end_time", "room", "start_time">>

\* mutant: every declared field is set to None, present or not
fill_missing_overwriting(d, fields) ==
  [f \in DOMAIN d \cup ToSet(fields) |-> IF f \in ToSet(fields) THEN Null ELSE d[f]]

\* for field in fields: if field not in d: d[field] = None
fill_missing(d, fields) ==
  [f \in DOMAIN d \cup ToSet(fields) |-> IF f \in DOMAIN d THEN d[f] ELSE Null]

\* mutant: normalized_count += 1 for every declared field, missing or not
count_declared(d, fields) == Len(fields)

\* the normalized_count += 1 of that loop
count_missing(d, fields) == Cardinality(ToSet(fields) \ DOMAIN d)

RECURSIVE SumSeq(_)
SumSeq(s) == IF s = <<>> THEN 0 ELSE Head(s) + SumSeq(Tail(s))

\* "Normalize time-level fields": only a list is walked, only a dict is filled
normalize_times(times) ==
  IF truthy(times) /\ times.t = "list"
  THEN [value |-> List([i \in DOMAIN times.items |->
                          IF times.items[i].t = "dict"
                          THEN Dict(fill_missing(times.items[i].fields, time_fields))
                          ELSE times.items[i]]),
        count |-> SumSeq([i \in DOMAIN times.items |->
                          IF times.items[i].t = "dict"
                          THEN count_missing(times.items[i].fields, time_fields)
                          ELSE 0])]
  ELSE [value |-> times, count |-> 0]

\* "Normalize section-level fields", then the times of the section
normalize_section(section) ==
  LET filled == fill_missing(section.fields, section_fields)
      times == normalize_times(filled["times"])
  IN [value |-> Dict([filled EXCEPT !["times"] = times.value]),
      count |-> count_missing(section.fields, section_fields) + times.count]

\* the sections a for loop over course_data['sections'] can be run on without
\* raising: item assignment needs every section to be a dict
sections_walkable(sections) ==
  /\ sections.t = "list"
  /\ \A i \in DOMAIN sections.items : sections.items[i].t = "dict"

\* one iteration of the loop over courses_data.items()
normalize_course(course_data) ==
  LET filled == fill_missing(course_data.fields, course_fields)
      sections == filled["sections"]
      done == [i \in DOMAIN sections.items |-> normalize_section(sections.items[i])]
  IN IF truthy(sections)
     THEN [value |-> Dict([filled EXCEPT !["sections"] =
                             List([i \in DOMAIN done |-> done[i].value])]),
           count |-> count_missing(course_data.fields, course_fields)
                       + SumSeq([i \in DOMAIN done |-> done[i].count])]
     ELSE [value |-> Dict(filled),
           count |-> count_missing(course_data.fields, course_fields)]

\* normalize_schema raises on a truthy 'sections' that cannot be walked
normalize_raises(data) ==
  \E k \in DOMAIN data :
    LET sections == fill_missing(data[k].fields, course_fields)["sections"]
    IN truthy(sections) /\ ~sections_walkable(sections)

\* keys of a dict in a fixed order, for summing over them
RECURSIVE SumOver(_, _)
SumOver(S, f) ==
  IF S = {} THEN 0
  ELSE LET k == CHOOSE x \in S : TRUE IN f[k] + SumOver(S \ {k}, f)

\* normalize_schema(courses_data): the document returned and normalized_count
normalize_schema(data) ==
  LET done == [k \in DOMAIN data |-> normalize_course(data[k])]
  IN [data |-> [k \in DOMAIN data |-> done[k].value],
      count |-> SumOver(DOMAIN data, [k \in DOMAIN data |-> done[k].count])]

\* ---- documents the class-schedule API can answer with
FullBlock ==
  Dict([building |-> Text("TMCB"), days |-> Text("M W F"), end_time |-> Text("9:50 AM"),
        room |-> Null, start_time |-> Text("9:00 AM")])
DaysOnlyBlock == Dict([days |-> Text("T Th")])

SectionFull ==
  Dict([credit_hours |-> Text("3.0"), credit_type |-> Text("S"),
        fixed_or_variable |-> Text("F"), honors |-> Null, instructor_id |-> Text("i1"),
        instructor_name |-> Text("Bob Johnson"), minimum_credit_hours |-> Text("3.0"),
        mode |-> Text("C"), mode_desc |-> Text("Classroom"),
        section_number |-> Text("001"), section_type |-> Text("DAY"),
        times |-> List(<<FullBlock>>)])
SectionBare == Dict([section_number |-> Text("002")])
SectionLooseTimes ==
  Dict([section_number |-> Text("003"), notes |-> Text("lab"),
        times |-> List(<<DaysOnlyBlock, Text("TBA")>>)])
SectionNoNumber == Dict([instructor_name |-> Null, times |-> Text("TBA")])

CourseFull ==
  Dict([catalog_number |-> Text("142"), catalog_suffix |-> Null,
        curriculum_id |-> Text("01234"), dept_name |-> Text("C S"),
        full_title |-> Text("Intro"), sections |-> List(<<SectionFull>>),
        title |-> Text("Intro"), title_code |-> Text("000"), year_term |-> Text("20261")])
CourseNoSections == Dict([curriculum_id |-> Text("1"), title_code |-> Text("0")])
CourseNullSections ==
  Dict([curriculum_id |-> Text("2"), title_code |-> Text("0"), sections |-> Null])
CourseEmptySections ==
  Dict([curriculum_id |-> Text("3"), title_code |-> Text("0"), sections |-> List(<<>>),
        campus |-> Text("Provo")])
CourseBare ==
  Dict([curriculum_id |-> Text("4"), title_code |-> Text("0"),
        sections |-> List(<<SectionBare, SectionLooseTimes>>)])
CourseNoIds == Dict([title |-> Text("Orphan"), sections |-> List(<<SectionNoNumber, SectionFull>>)])
CourseBadSection ==
  Dict([curriculum_id |-> Text("5"), title_code |-> Text("0"),
        sections |-> List(<<SectionBare, Text("oops")>>)])

CourseDocs ==
  { CourseFull, CourseNoSections, CourseNullSections, CourseEmptySections, CourseBare,
    CourseNoIds, CourseBadSection }

CourseKeys == <<"C1", "C2", "C3", "C4">>

\* the documents with up to MaxCourses courses
ClassesData ==
  UNION { [ { CourseKeys[i] : i \in 1..n } -> CourseDocs ] : n \in 0..MaxCourses }

\* what getSections.php answers for a course
Responses == {"failed", "no_sections", "times"}

\* for section in course_data['sections']: section['times'] = None; the loop
\* raises on the first entry that is no dict, after it changed the ones before
RECURSIVE clear_times(_)
clear_times(items) ==
  IF items = <<>> \/ Head(items).t # "dict" THEN items
  ELSE <<Dict([f \in DOMAIN Head(items).fields \cup {"times"} |->
                 IF f = "times" THEN Null ELSE Head(items).fields[f]])>>
       \o clear_times(Tail(items))

\* section['times'] = time_ranges, for every section the API gives times for
set_times(items) ==
  [i \in DOMAIN items |->
     Dict([f \in DOMAIN items[i].fields \cup {"times"} |->
             IF f = "times" THEN List(<<FullBlock>>) ELSE items[i].fields[f]])]

\* add_times_to_course: the course as the call leaves it
add_times_to_course(course_data, response) ==
  LET fields == course_data.fields
      has_list == "sections" \in DOMAIN fields /\ fields["sections"].t = "list"
      cleared == Dict([fields EXCEPT !["sections"] = List(clear_times(@.items))])
      all_numbered ==
        \A i \in DOMAIN fields["sections"].items :
          /\ fields["sections"].items[i].t = "dict"
          /\ "section_number" \in DOMAIN fields["sections"].items[i].fields
  IN IF ~({"curriculum_id", "title_code"} \subseteq DOMAIN fields) THEN course_data
     ELSE IF response = "no_sections" \/ ~has_list THEN course_data
     ELSE IF response = "failed" \/ ~all_numbered THEN cleared
     ELSE Dict([fields EXCEPT !["sections"] = List(set_times(@.items))])

\* classes_data = download_classes(): the request fails, or answers a document
DownloadClasses ==
  /\ build_pc = "start"
  /\ \/ /\ build_pc' = "download_failed"
        /\ UNCHANGED courses_data
     \/ /\ build_pc' = "downloaded"
        /\ courses_data' \in ClassesData
  /\ UNCHANGED <<normalized_count, output_file>>

\* courses_data = parse_classes(classes_data): returned as it is
ParseClasses ==
  /\ build_pc = "downloaded"
  /\ build_pc' = "parsed"
  /\ UNCHANGED <<courses_data, normalized_count, output_file>>

\* courses_data = add_times_to_all_courses(courses_data)
AddTimes ==
  /\ build_pc = "parsed"
  /\ build_pc' = "times_added"
  /\ \E response \in [DOMAIN courses_data -> Responses] :
       courses_data' = [k \in DOMAIN courses_data |->
                          add_times_to_course(courses_data[k], response[k])]
  /\ UNCHANGED <<normalized_count, output_file>>

\* courses_data = normalize_schema(courses_data)
NormalizeSchema ==
  /\ build_pc = "times_added"
  /\ IF normalize_raises(courses_data)
     THEN /\ build_pc' = "crashed"
          /\ UNCHANGED <<courses_data, normalized_count>>
     ELSE /\ build_pc' = "normalized"
          /\ courses_data' = normalize_schema(courses_data).data
          /\ normalized_count' = normalize_schema(courses_data).count
  /\ UNCHANGED output_file

\* mutant: courses.json is written as soon as the times are added
SaveCoursesUnnormalized ==
  /\ build_pc = "times_added"
  /\ build_pc' = "saved"
  /\ output_file' = courses_data
  /\ UNCHANGED <<courses_data, normalized_count>>

\* json.dump(courses_data, f) into courses.json
SaveCourses ==
  /\ build_pc = "normalized"
  /\ build_pc' = "saved"
  /\ output_file' = courses_data
  /\ UNCHANGED <<courses_data, normalized_count>>

BuildInit ==
  /\ build_pc = "start"
  /\ courses_data = <<>>
  /\ normalized_count = 0
  /\ output_file = <<>>
  /\ professors = <<>>
  /\ instructor_name = None
  /\ returned = {}
  /\ FreshRun
  /\ DatabaseCreated
  /\ ExportIdle /\ SimilarityIdle /\ ToolsIdle

BuildNext ==
  /\ \/ DownloadClasses
     \/ ParseClasses
     \/ AddTimes
     \/ NormalizeSchema
     \/ SaveCourses
  /\ UNCHANGED <<match_vars, tables, run_vars, main_vars, export_vars, sim_vars, tool_vars>>

SpecBuild == BuildInit /\ [][BuildNext]_vars

\* ------------------------------------- build_courses.py, then parse_SQL.py
\* the two programs share one file: build_courses.main writes courses.json,
\* parse_SQL.main loads it. Until it is written, open() finds no such file.
PipelineDocuments ==
  { [k \in {"C1"} |-> CourseBare],
    [k \in {"C1", "C2"} |-> IF k = "C1" THEN CourseFull ELSE CourseEmptySections] }

\* a step of build_courses.main short of writing courses.json
BuildStep ==
  /\ \/ DownloadClasses /\ (build_pc' = "downloaded" => courses_data' \in PipelineDocuments)
     \/ ParseClasses
     \/ AddTimes
     \/ NormalizeSchema
  /\ UNCHANGED <<match_vars, tables, run_vars, main_vars, export_vars, sim_vars, tool_vars>>

\* Step 5 of build_courses.main: from now on courses.json can be loaded
PublishCourses ==
  /\ SaveCourses
  /\ source_files' = [source_files EXCEPT !["courses.json"] = "ok"]
  /\ UNCHANGED <<match_vars, tables, run_vars, created_tables, artifacts,
                 export_vars, sim_vars, tool_vars>>

\* neither program has run: courses.json is not there yet
PipelineInit ==
  /\ professors \in PipelineCatalogs
  /\ instructor_name = None
  /\ returned = {}
  /\ pc = Head(main_steps)
  /\ next_prof = 0
  /\ records_read = 0
  /\ db_professors = <<>>
  /\ db_courses = <<>>
  /\ db_sections = <<>>
  /\ db_section_times = <<>>
  /\ db_ratings = <<>>
  /\ db_rating_tags = <<>>
  /\ db_name_variants = <<>>
  /\ rmp_id_to_db_id = <<>>
  /\ instructor_to_prof_id = <<>>
  /\ course_db_id = SqlNull
  /\ rating_entry = NoEntry
  /\ counters = ZeroCounters
  /\ matcher_runs = <<>>
  /\ source_files = [f \in ToSet(SourceFiles) |-> IF f = "courses.json" THEN "missing" ELSE "ok"]
  /\ created_tables = {}
  /\ artifacts = {}
  /\ build_pc = "start"
  /\ courses_data = <<>>
  /\ normalized_count = 0
  /\ output_file = <<>>
  /\ ExportIdle /\ SimilarityIdle /\ ToolsIdle

PipelineNext ==
  \/ BuildStep
  \/ PublishCourses
  \/ MainNext

SpecPipeline == PipelineInit /\ [][PipelineNext]_vars

\* ------------------------------------------------------------ escape_sql_string
\* the values a row can hold, and the ones escape_sql_string tells apart:
\* None, a bool, an int, a float (finite, with one decimal digit: tenths / 10,
\* or nan, inf, -inf) and a str
SqlNone == [t |-> "null"]
SqlBool(b) == [t |-> "bool", b |-> b]
SqlInt(n) == [t |-> "int", n |-> n]
SqlFloat(tenths) == [t |-> "float", kind |-> "finite", tenths |-> tenths]
SqlNaN == [t |-> "float", kind |-> "nan", tenths |-> 0]
SqlInf == [t |-> "float", kind |-> "inf", tenths |-> 0]
SqlNegInf == [t |-> "float", kind |-> "-inf", tenths |-> 0]
SqlStr(s) == [t |-> "str", s |-> s]

Digits == <<"0", "1", "2", "3", "4", "5", "6", "7", "8", "9">>

\* str(n) of an int
RECURSIVE digits_of(_)
digits_of(n) == IF n < 10 THEN <<Digits[n + 1]>> ELSE Append(digits_of(n \div 10), Digits[(n % 10) + 1])
str_int(n) == IF n < 0 THEN <<"-">> \o digits_of(-n) ELSE digits_of(n)

\* str(x) of a finite float with one decimal digit
str_float(tenths) ==
  LET magnitude == IF tenths < 0 THEN -tenths ELSE tenths
  IN (IF tenths < 0 THEN <<"-">> ELSE <<>>)
       \o digits_of(magnitude \div 10) \o <<".">> \o digits_of(magnitude % 10)

\* str.replace(old, new) for a one-character old
RECURSIVE replace(_, _, _)
replace(s, old, new) ==
  IF s = <<>> THEN <<>>
  ELSE (IF Head(s) = old THEN new ELSE <<Head(s)>>) \o replace(Tail(s), old, new)

\* mutant: the single quotes are left as they are
escape_sql_string_quotes_kept(value) ==
  CASE value.t = "null" -> <<"N", "U", "L", "L">>
    [] value.t = "bool" -> IF value.b THEN <<"T", "R", "U", "E">> ELSE <<"F", "A", "L", "S", "E">>
    [] value.t = "int" -> str_int(value.n)
    [] value.t = "float" ->
         CASE value.kind = "nan" -> <<"N", "U", "L", "L">>
           [] value.kind = "inf" -> <<"'", "I", "n", "f", "i", "n", "i", "t", "y", "'">>
           [] value.kind = "-inf" -> <<"'", "-", "I", "n", "f", "i", "n", "i", "t", "y", "'">>
           [] OTHER -> str_float(value.tenths)
    [] value.t = "str" -> <<"'">> \o replace(value.s, "\\", <<"\\", "\\">>) \o <<"'">>

escape_sql_string(value) ==
  CASE value.t = "null" -> <<"N", "U", "L", "L">>
    [] value.t = "bool" -> IF value.b THEN <<"T", "R", "U", "E">> ELSE <<"F", "A", "L", "S", "E">>
    [] value.t = "int" -> str_int(value.n)
    [] value.t = "float" ->
         CASE value.kind = "nan" -> <<"N", "U", "L", "L">>
           [] value.kind = "inf" -> <<"'", "I", "n", "f", "i", "n", "i", "t", "y", "'">>
           [] value.kind = "-inf" -> <<"'", "-", "I", "n", "f", "i", "n", "i", "t", "y", "'">>
           [] OTHER -> str_float(value.tenths)
    [] value.t = "str" ->
         <<"'">> \o replace(replace(value.s, "'", <<"'", "'">>), "\\", <<"\\", "\\">>)
                 \o <<"'">>

\* bounds of the values escape_sql_string is called on
MaxStrLen == 3
MaxInt == 12

EscapeAlphabet == {"a", "'", "\\"}

SqlValues ==
  {SqlNone, SqlBool(TRUE), SqlBool(FALSE), SqlNaN, SqlInf, SqlNegInf}
    \cup { SqlInt(n) : n \in (-MaxInt)..MaxInt }
    \cup { SqlFloat(n) : n \in (-MaxInt)..MaxInt }
    \cup { SqlStr(s) : s \in SeqsUpTo(EscapeAlphabet, MaxStrLen) }

EscapeInit ==
  /\ professors = <<>>
  /\ instructor_name = None
  /\ returned = {}
  /\ FreshRun
  /\ DatabaseCreated
  /\ BuildIdle /\ SimilarityIdle /\ ToolsIdle
  /\ all_tables = <<>>
  /\ table_rows = <<>>
  /\ sql_script = <<>>
  /\ csv_files = <<>>
  /\ sql_value \in SqlValues
  /\ sql_literal = <<>>

\* one call escape_sql_string(val)
EscapeValue ==
  /\ sql_literal = <<>>
  /\ sql_literal' = escape_sql_string(sql_value)
  /\ UNCHANGED <<match_vars, tables, run_vars, main_vars, build_vars, sim_vars, tool_vars,
                 all_tables, table_rows, sql_script, csv_files, sql_value>>

EscapeNext == EscapeValue

SpecEscape == EscapeInit /\ [][EscapeNext]_vars

\* --------------------------------------------------------- export_to_postgresql
\* PRAGMA table_info: the columns of each table, in the order they are declared
table_columns(table) ==
  CASE table = "professors" ->
         <<"professor_id", "rmp_id", "rmp_legacy_id", "first_name", "last_name",
           "department", "school", "avg_rating", "avg_difficulty", "num_ratings",
           "would_take_again_percent", "created_at">>
    [] table = "courses" ->
         <<"course_id", "course_key", "year_term", "curriculum_id", "title_code",
           "dept_name", "catalog_number", "catalog_suffix", "title", "full_title",
           "created_at">>
    [] table = "sections" ->
         <<"section_id", "course_id", "section_number", "fixed_or_variable",
           "credit_hours", "minimum_credit_hours", "honors", "credit_type",
           "section_type", "instructor_name", "instructor_id", "professor_id", "mode",
           "mode_desc">>
    [] table = "section_times" ->
         <<"time_id", "section_id", "days", "start_time", "end_time", "building", "room">>
    [] table = "ratings" ->
         <<"rating_id", "professor_id", "rmp_rating_id", "rmp_legacy_id", "date",
           "class_name", "clarity_rating", "helpful_rating", "difficulty_rating",
           "comment", "grade", "attendance_mandatory", "would_take_again",
           "textbook_use", "is_for_credit", "is_for_online_class", "flag_status",
           "admin_reviewed_at", "thumbs_up_total", "thumbs_down_total",
           "created_by_user">>
    [] table = "rating_tags" -> <<"tag_id", "rating_id", "tag_name">>
    [] table = "professor_name_variants" ->
         <<"variant_id", "professor_id", "variant_name", "source", "match_confidence">>
    [] OTHER -> <<"id", "note">>

\* FOREIGN KEY (...) REFERENCES: the referencing table and the referenced one
ForeignKeys ==
  { <<"sections", "courses">>, <<"sections", "professors">>,
    <<"section_times", "sections">>, <<"ratings", "professors">>,
    <<"rating_tags", "ratings">>, <<"professor_name_variants", "professors">> }

\* tables the database file holds that create_tables did not create
ExtraTables == {"audit_log", "zz_scratch"}

\* ORDER BY name: the names a database can list, as SQLite sorts them
NamesInOrder ==
  <<"audit_log", "courses", "professor_name_variants", "professors", "rating_tags",
    "ratings", "section_times", "sections", "zz_scratch">>

\* SELECT name FROM sqlite_master WHERE type='table' ... ORDER BY name
tables_by_name(present) == SelectSeq(NamesInOrder, LAMBDA t : t \in present)

\* mutant: the tables are taken as sqlite_master lists them
ordered_tables_by_name(tables_listed) == tables_listed

\* table_order first, then "any remaining tables"
ordered_tables(tables_listed) ==
  LET first == SelectSeq(TableNames, LAMBDA t : t \in ToSet(tables_listed))
  IN first \o SelectSeq(tables_listed, LAMBDA t : t \notin ToSet(first))

\* index_definitions
index_definitions ==
  << <<"idx_professors_rmp_id", "professors">>, <<"idx_professors_name", "professors">>,
     <<"idx_sections_course", "sections">>, <<"idx_sections_professor", "sections">>,
     <<"idx_section_times_section", "section_times">>,
     <<"idx_ratings_professor", "ratings">>, <<"idx_rating_tags_rating", "rating_tags">> >>

batch_size == 500

\* mutant: only the full batches are written
full_batches(rows, batch_start) ==
  [k \in 1..(Len(rows) \div batch_size) |->
     SubSeq(rows, (k - 1) * batch_size + 1, k * batch_size)]

\* for batch_start in range(0, len(rows), batch_size):
\*     batch = rows[batch_start:batch_start + batch_size]
RECURSIVE batches(_, _)
batches(rows, batch_start) ==
  IF batch_start >= Len(rows) THEN <<>>
  ELSE <<SubSeq(rows, batch_start + 1,
                IF batch_start + batch_size < Len(rows) THEN batch_start + batch_size
                ELSE Len(rows))>>
       \o batches(rows, batch_start + batch_size)

\* values = [escape_sql_string(val) for val in row]
row_values(row) == [c \in DOMAIN row |-> escape_sql_string(row[c])]

\* the INSERT statements of one table: none if it has no rows
insert_statements(table, rows) ==
  LET parts == batches(rows, 0)
  IN [k \in DOMAIN parts |->
        [kind |-> "insert", table |-> table, columns |-> table_columns(table),
         rows |-> [r \in DOMAIN parts[k] |-> row_values(parts[k][r])]]]

RECURSIVE Concat(_)
Concat(seqs) == IF seqs = <<>> THEN <<>> ELSE Head(seqs) \o Concat(Tail(seqs))

\* the statements of supabase_import.sql, in the order they are written
sql_statements(tables_listed, rows_of) ==
  LET ordered == ordered_tables(tables_listed)
  IN [i \in DOMAIN ordered |-> [kind |-> "drop", table |-> Reverse(ordered)[i]]]
     \o [i \in DOMAIN ordered |-> [kind |-> "create", table |-> ordered[i]]]
     \o [i \in DOMAIN index_definitions |->
           [kind |-> "index", table |-> index_definitions[i][2],
            name |-> index_definitions[i][1]]]
     \o Concat([i \in DOMAIN ordered |-> insert_statements(ordered[i], rows_of[ordered[i]])])

\* ---- the database export_to_postgresql reads
MaxBatches == 2

RowCounts ==
  {0, 1, batch_size - 1, batch_size, batch_size + 1, MaxBatches * batch_size,
   MaxBatches * batch_size + 1}

SampleValues ==
  <<SqlStr(<<"O", "'", "B">>), SqlNone, SqlInt(3), SqlFloat(45), SqlStr(<<>>),
    SqlStr(<<"a", "\\", "b">>)>>

\* row i of a table: its AUTOINCREMENT key, then a value for each other column
sample_row(table, i) ==
  [c \in DOMAIN table_columns(table) |->
     IF c = 1 THEN SqlInt(i) ELSE SampleValues[((i + c) % Len(SampleValues)) + 1]]

sample_rows(table, n) == [i \in 1..n |-> sample_row(table, i)]

\* main() has built the database: some table holds n rows, the others hold
\* two rows each, or none
ExportInit ==
  /\ professors = <<>>
  /\ instructor_name = None
  /\ returned = {}
  /\ FreshRun
  /\ DatabaseCreated
  /\ BuildIdle /\ SimilarityIdle /\ ToolsIdle
  /\ \E extra \in SUBSET ExtraTables :
       /\ all_tables = tables_by_name(ToSet(TableNames) \cup extra)
       /\ \E large \in ToSet(all_tables), n \in RowCounts, others \in {0, 2} :
            table_rows = [t \in ToSet(all_tables) |->
                            sample_rows(t, IF t = large THEN n ELSE others)]
  /\ sql_script = <<>>
  /\ csv_files = <<>>
  /\ sql_value = SqlNone
  /\ sql_literal = <<>>

\* export_to_postgresql(conn), the combined file
ExportToPostgresql ==
  /\ sql_script = <<>>
  /\ sql_script' = sql_statements(all_tables, table_rows)
  /\ UNCHANGED <<match_vars, tables, run_vars, main_vars, build_vars, sim_vars, tool_vars,
                 all_tables, table_rows, csv_files, sql_value, sql_literal>>

ExportNext == ExportToPostgresql

SpecExport == ExportInit /\ [][ExportNext]_vars

\* ----------------------------------------------------------------- export_to_csv
\* csv.writer: None is written as the empty string, a number as str(value)
csv_text(value) ==
  CASE value.t = "null" -> <<>>
    [] value.t = "bool" -> IF value.b THEN <<"T", "r", "u", "e">> ELSE <<"F", "a", "l", "s", "e">>
    [] value.t = "int" -> str_int(value.n)
    [] value.t = "float" ->
         CASE value.kind = "nan" -> <<"n", "a", "n">>
           [] value.kind = "inf" -> <<"i", "n", "f">>
           [] value.kind = "-inf" -> <<"-", "i", "n", "f">>
           [] OTHER -> str_float(value.tenths)
    [] value.t = "str" -> value.s

\* the characters that make csv.writer quote a field (QUOTE_MINIMAL): the
\* delimiter, the quote character and those of the line terminator
CsvSpecial == {",", "\"", "\r", "\n"}

\* mutant: no field is quoted
csv_field_unquoted(text) == text

\* a field as the excel dialect writes it: quoted if it must be, quotes doubled
csv_field(text) ==
  IF \E i \in DOMAIN text : text[i] \in CsvSpecial
  THEN <<"\"">> \o replace(text, "\"", <<"\"", "\"">>) \o <<"\"">>
  ELSE text

RECURSIVE join_with(_, _)
join_with(parts, separator) ==
  IF parts = <<>> THEN <<>>
  ELSE IF Len(parts) = 1 THEN parts[1]
  ELSE parts[1] \o separator \o join_with(Tail(parts), separator)

\* writer.writerow(row): a lone empty field is written as "" so that the line
\* is not empty
csv_line(row) ==
  LET fields == [c \in DOMAIN row |-> csv_field(row[c])]
  IN (IF Len(row) = 1 /\ row[1] = <<>> THEN <<"\"", "\"">>
      ELSE join_with(fields, <<",">>))
       \o <<"\r", "\n">>

\* a column name as text: the names of the schema are runs of letters and
\* underscores, each kept as one unit of text
column_text(columns) == [c \in DOMAIN columns |-> <<columns[c]>>]

\* writer.writerow(columns); writer.writerows(rows)
csv_file(columns, rows) ==
  csv_line(column_text(columns))
    \o Concat([i \in DOMAIN rows |-> csv_line([c \in DOMAIN rows[i] |-> csv_text(rows[i][c])])])

\* ---- the database export_to_csv reads
MaxCsvRows == 2

CsvValues ==
  <<SqlStr(<<"a", ",", "b">>), SqlNone, SqlStr(<<>>), SqlStr(<<"a", "\"", "b">>),
    SqlStr(<<"x", "\n", "y">>), SqlStr(<<"\r">>), SqlInt(-7), SqlFloat(45), SqlInf,
    SqlStr(<<" ", "p", " ">>), SqlStr(<<"\"">>), SqlStr(<<"\"", ",", "\"", "\"">>)>>

\* a row of a table: its key, then a value for each other column
csv_row(table, j) ==
  [c \in DOMAIN table_columns(table) |->
     IF c = 1 THEN SqlInt(j) ELSE CsvValues[((j + c) % Len(CsvValues)) + 1]]

csv_rows(table) == { csv_row(table, j) : j \in 1..Len(CsvValues) }

\* main() has built the database: one table holds up to MaxCsvRows rows with
\* text that needs quoting, the others one plain row each
CsvInit ==
  /\ professors = <<>>
  /\ instructor_name = None
  /\ returned = {}
  /\ FreshRun
  /\ DatabaseCreated
  /\ BuildIdle /\ SimilarityIdle /\ ToolsIdle
  /\ \E extra \in {{}, ExtraTables} :
       /\ all_tables = tables_by_name(ToSet(TableNames) \cup extra)
       /\ \E chosen \in ToSet(all_tables) :
          \E rows \in SeqsUpTo(csv_rows(chosen), MaxCsvRows) :
            table_rows = [t \in ToSet(all_tables) |->
                            IF t = chosen THEN rows ELSE sample_rows(t, 1)]
  /\ sql_script = <<>>
  /\ csv_files = <<>>
  /\ sql_value = SqlNone
  /\ sql_literal = <<>>

\* export_to_csv(conn): one file for each table
ExportToCsv ==
  /\ csv_files = <<>>
  /\ csv_files' = [t \in ToSet(all_tables) |-> csv_file(table_columns(t), table_rows[t])]
  /\ UNCHANGED <<match_vars, tables, run_vars, main_vars, build_vars, sim_vars, tool_vars,
                 all_tables, table_rows, sql_script, sql_value, sql_literal>>

CsvNext == ExportToCsv

SpecCsv == CsvInit /\ [][CsvNext]_vars

\* ---------------------------------------------------- name_similarity on its own
MaxRawLen == 2

\* raw strings name_similarity can be handed
RawNames ==
  SeqsUpTo({"a", "b", " ", "."}, MaxRawLen)
    \cup { <<"J","o","h","n">>, <<"j","o","h","n",".">>, <<"J","o","n">>,
           <<"J","o","h","n"," ","Q">>, <<"Q"," ","J","o","h","n">>,
           <<"S","m","i","t","h"," ","J","r",".">>, <<"S","m","y","t","h">> }

SimilarityInit ==
  /\ professors = <<>>
  /\ instructor_name = None
  /\ returned = {}
  /\ FreshRun
  /\ DatabaseCreated
  /\ BuildIdle /\ ExportIdle /\ ToolsIdle
  /\ name1 \in RawNames
  /\ name2 \in RawNames
  /\ similarity = <<>>

\* one call name_similarity(name1, name2)
ComputeSimilarity ==
  /\ similarity = <<>>
  /\ similarity' = name_similarity(name1, name2)
  /\ UNCHANGED <<match_vars, tables, run_vars, main_vars, build_vars, export_vars, tool_vars,
                 name1, name2>>

SimilarityNext == ComputeSimilarity

SpecSimilarity == SimilarityInit /\ [][SimilarityNext]_vars

\* ------------------------------------------- normalize_name called on its own
MaxNameLen == 5

\* the characters of the raw names: a letter, a suffix in both cases, a blank
\* and a period
NameAlphabet == {"a", "V", "v", " ", "."}

\* the arguments of normalize_name: None and every string up to MaxNameLen
NameArguments == {None} \cup SeqsUpTo(NameAlphabet, MaxNameLen)

NormalizeInit ==
  /\ raw_name \in NameArguments
  /\ normalized = None
  /\ renormalized = None
  /\ professors = <<>>
  /\ instructor_name = <<>>
  /\ returned = {}
  /\ FreshRun
  /\ DatabaseCreated
  /\ BuildIdle /\ ExportIdle /\ SimilarityIdle /\ NicknameIdle /\ tag_string = None /\ UploadIdle /\ FetchIdle

\* normalized = normalize_name(raw_name)
NormalizeName ==
  /\ normalized = None
  /\ normalized' = normalize_name(raw_name)
  /\ UNCHANGED <<match_vars, tables, run_vars, main_vars, build_vars, export_vars,
                 sim_vars, nick_vars, tag_string, upload_vars, fetch_vars, raw_name, renormalized>>

\* renormalized = normalize_name(normalized)
NormalizeAgain ==
  /\ normalized # None
  /\ renormalized = None
  /\ renormalized' = normalize_name(normalized)
  /\ UNCHANGED <<match_vars, tables, run_vars, main_vars, build_vars, export_vars,
                 sim_vars, nick_vars, tag_string, upload_vars, fetch_vars, raw_name, normalized>>

NormalizeNext ==
  \/ NormalizeName
  \/ NormalizeAgain

SpecNormalize == NormalizeInit /\ [][NormalizeNext]_vars

\* ------------------------------------------ expand_nickname called on its own
\* lower-case first names: every informal and every canonical name of the table
\* and two names the table does not hold
FirstNames ==
  { NICKNAME_ITEMS[i][1] : i \in DOMAIN NICKNAME_ITEMS }
    \cup { NICKNAME_ITEMS[i][2] : i \in DOMAIN NICKNAME_ITEMS }
    \cup { <<"z","e","d">>, <<"m","a","r","y">> }

NicknameInit ==
  /\ first_name_a \in FirstNames
  /\ first_name_b \in FirstNames
  /\ variations_a = <<>>
  /\ variations_b = <<>>
  /\ first_names_match = <<>>
  /\ professors = <<>>
  /\ instructor_name = <<>>
  /\ returned = {}
  /\ FreshRun
  /\ DatabaseCreated
  /\ BuildIdle /\ ExportIdle /\ SimilarityIdle /\ NormalizeIdle /\ tag_string = None /\ UploadIdle /\ FetchIdle

\* the two calls of expand_nickname and the double loop of match_professor_name
\* over their results, for equal last names, with either name as the instructor's
ExpandNicknames ==
  /\ variations_a = <<>>
  /\ \E seed \in 0..(HashSeeds - 1) :
       /\ variations_a' = expand_nickname(first_name_a, seed)
       /\ variations_b' = expand_nickname(first_name_b, seed)
       /\ first_names_match' =
            << nickname_rule(first_name_b, <<"x">>, first_name_a, <<"x">>, seed),
               nickname_rule(first_name_a, <<"x">>, first_name_b, <<"x">>, seed) >>
  /\ UNCHANGED <<match_vars, tables, run_vars, main_vars, build_vars, export_vars,
                 sim_vars, norm_vars, tag_string, upload_vars, fetch_vars,
                 first_name_a, first_name_b>>

NicknameNext == ExpandNicknames

SpecNickname == NicknameInit /\ [][NicknameNext]_vars

\* --------------------------------------------- the tags of one rating being stored
MaxTagLen == 5

TagAlphabet == {"a", "-", ";", " "}

\* the values of a rating node's ratingTags: null or absent, and every string up
\* to MaxTagLen
TagStrings == {None} \cup SeqsUpTo(TagAlphabet, MaxTagLen)

\* insert_ratings has stored the Rating row r1 of professor p1 and is about to
\* read the rating's ratingTags
TagsInit ==
  /\ tag_string \in TagStrings
  /\ professors = <<RobertJohnson>>
  /\ instructor_name = None
  /\ returned = {}
  /\ pc = "ratings"
  /\ next_prof = 1
  /\ records_read = 0
  /\ db_professors = <<[rowid |-> 1, rmp_id |-> "p1", first_name |-> RobertJohnson.firstName,
                        last_name |-> RobertJohnson.lastName]>>
  /\ db_courses = <<>>
  /\ db_sections = <<>>
  /\ db_section_times = <<>>
  /\ db_ratings = <<[rowid |-> 1, professor_id |-> 1, rmp_rating_id |-> "r1",
                     comment |-> "great"]>>
  /\ db_rating_tags = <<>>
  /\ db_name_variants = <<>>
  /\ rmp_id_to_db_id = [id \in {"p1"} |-> 1]
  /\ instructor_to_prof_id = <<>>
  /\ course_db_id = SqlNull
  /\ rating_entry = [data |-> "node", typename |-> "Teacher", id |-> "p1",
                     ratings |-> "object", edges |-> <<>>]
  /\ counters = [ZeroCounters EXCEPT !.ratings_inserted = 1]
  /\ matcher_runs = <<>>
  /\ DatabaseCreated
  /\ BuildIdle /\ ExportIdle /\ SimilarityIdle /\ NormalizeIdle /\ NicknameIdle /\ UploadIdle /\ FetchIdle

\* "Insert rating tags" for the Rating row just stored, then the loops end
InsertRatingTags ==
  /\ pc = "ratings"
  /\ LET rating_db_id == db_ratings[Len(db_ratings)].rowid
         tags == tag_names(tag_string)
     IN /\ db_rating_tags' = insert_tags(db_rating_tags, rating_db_id, tags)
        /\ counters' = [counters EXCEPT !.tags_inserted = @ + Len(tags)]
  /\ pc' = "done"
  /\ UNCHANGED <<match_vars, main_vars, other_vars, db_professors, db_courses, db_sections,
                 db_section_times, db_ratings, db_name_variants, next_prof, records_read,
                 rmp_id_to_db_id, instructor_to_prof_id, course_db_id, rating_entry,
                 matcher_runs>>

TagsNext == InsertRatingTags

SpecTags == TagsInit /\ [][TagsNext]_vars

\* ----------------------------------------------------------- run_large_sql_file
\* A text is a sequence of pieces: single characters, and words that hold
\* neither a line break nor a semicolon.
\* where the line that starts after position pos ends: at its line break, or at
\* the end of the file
line_end(text, pos) ==
  LET breaks == { i \in (pos + 1)..Len(text) : text[i] = "\n" }
  IN IF breaks = {} THEN Len(text) ELSE Min(breaks)

\* what run_large_sql_file never touches
upload_frame ==
  <<match_vars, tables, run_vars, main_vars, build_vars, export_vars, sim_vars,
    norm_vars, nick_vars, tag_string, fetch_vars>>

\* mutant: only a semicolon directly before the line break ends a statement
ends_statement_unstripped(line) ==
  \/ Len(line) >= 1 /\ line[Len(line)] = ";"
  \/ Len(line) >= 2 /\ line[Len(line)] = "\n" /\ line[Len(line) - 1] = ";"

\* line.strip().endswith(";")
ends_statement(line) ==
  \E i \in DOMAIN line :
    /\ line[i] = ";"
    /\ \A j \in (i + 1)..Len(line) : line[j] \in Whitespace \cup {"\n"}

\* psycopg2.connect, autocommit, cursor and open(path); without a file open()
\* raises FileNotFoundError and the function is left with the connection open
Connect ==
  /\ upload_pc = "idle"
  /\ upload_pc' = IF sql_file = None THEN "raised" ELSE "reading"
  /\ connection' = "open"
  /\ file_pos' = 0
  /\ statement' = <<>>
  /\ UNCHANGED <<upload_frame, sql_file, db_failures, executed, printed>>

\* one iteration of "for line in f"
ReadLine ==
  /\ upload_pc = "reading"
  /\ file_pos < Len(sql_file)
  /\ LET line == SubSeq(sql_file, file_pos + 1, line_end(sql_file, file_pos))
         text == statement \o line
     IN /\ file_pos' = line_end(sql_file, file_pos)
        /\ IF ends_statement(line)
           THEN /\ executed' = Append(executed, text)
                /\ printed' =
                     IF Len(executed) + 1 \in db_failures
                     THEN printed \o <<[message |-> "Error executing statement:",
                                        statement |-> text],
                                       [message |-> "Error:", statement |-> <<>>]>>
                     ELSE printed
                /\ statement' = <<>>
           ELSE /\ statement' = text
                /\ UNCHANGED <<executed, printed>>
  /\ UNCHANGED <<upload_frame, sql_file, db_failures, upload_pc, connection>>

\* the file is exhausted: cur.close(), conn.close(), print("Done.")
FinishUpload ==
  /\ upload_pc = "reading"
  /\ file_pos = Len(sql_file)
  /\ upload_pc' = "done"
  /\ connection' = "closed"
  /\ printed' = Append(printed, [message |-> "Done.", statement |-> <<>>])
  /\ UNCHANGED <<upload_frame, sql_file, db_failures, file_pos, statement, executed>>

run_large_sql_file ==
  \/ Connect
  \/ ReadLine
  \/ FinishUpload

\* ---- any file handed to run_large_sql_file
MaxFileLen == 5

FileAlphabet == {"a", ";", " ", "\n"}

\* the most statements a file of MaxFileLen pieces can hold
MaxStatements == (MaxFileLen + 1) \div 2

UploadInit ==
  /\ sql_file \in SeqsUpTo(FileAlphabet, MaxFileLen)
  /\ db_failures \in SUBSET (1..MaxStatements)
  /\ upload_pc = "idle"
  /\ connection = "none"
  /\ file_pos = 0
  /\ statement = <<>>
  /\ executed = <<>>
  /\ printed = <<>>
  /\ professors = <<>>
  /\ instructor_name = None
  /\ returned = {}
  /\ FreshRun
  /\ DatabaseCreated
  /\ BuildIdle /\ ExportIdle /\ SimilarityIdle /\ NormalizeIdle /\ NicknameIdle
  /\ tag_string = None /\ FetchIdle

UploadNext == run_large_sql_file

SpecUpload == UploadInit /\ [][UploadNext]_vars

\* ---- the file written by export_to_postgresql handed to run_large_sql_file
\* one combined.write(...) call: what it writes is a statement or the comment
\* and blank lines between statements
Comment(text) == [kind |-> "comment", text |-> text]
Statement(text) == [kind |-> "statement", text |-> text]

\* the three comment lines that head a step, and the blank line after them
step_header(title) ==
  <<Comment(<<"-- ============================================", "\n">>),
    Comment(<<title, "\n">>),
    Comment(<<"-- ============================================", "\n", "\n">>)>>

\* ', '.join(parts), the parts being texts
RECURSIVE comma_joined(_)
comma_joined(parts) ==
  IF parts = <<>> THEN <<>>
  ELSE IF Len(parts) = 1 THEN parts[1]
       ELSE parts[1] \o <<",", " ">> \o comma_joined(Tail(parts))

\* the CREATE TABLE text of sqlite_master after the conversions: a first line, a
\* line for each column (its definition as one word) and a closing parenthesis
create_sql(table) ==
  LET columns == table_columns(table)
  IN <<"CREATE TABLE ", table, " (", "\n">>
     \o Concat([c \in DOMAIN columns |->
                  <<"            ", columns[c], " ...">>
                  \o (IF c < Len(columns) THEN <<",">> ELSE <<>>) \o <<"\n">>])
     \o <<"        )">>

\* ",\n".join(values_list) for the rows of one batch
RECURSIVE values_list(_)
values_list(rows) ==
  IF rows = <<>> THEN <<>>
  ELSE <<"(">> \o comma_joined(Head(rows)) \o <<")">>
       \o (IF Len(rows) = 1 THEN <<>> ELSE <<",", "\n">> \o values_list(Tail(rows)))

\* what is written for one statement of the script
statement_writes(stmt, rows_of) ==
  CASE stmt.kind = "drop" ->
         <<Statement(<<"DROP TABLE IF EXISTS ", stmt.table, " CASCADE", ";", "\n">>)>>
    [] stmt.kind = "create" ->
         <<Comment(<<"-- Table: ", stmt.table, "\n">>),
           Statement(create_sql(stmt.table) \o <<";", "\n">>),
           Comment(<<"\n">>)>>
    [] stmt.kind = "index" ->
         <<Statement(<<"CREATE INDEX IF NOT EXISTS ", stmt.name, " ON ", stmt.table,
                       "(...)", ";", "\n">>)>>
    [] stmt.kind = "insert" ->
         (IF stmt.rows[1] = row_values(rows_of[stmt.table][1])
          THEN <<Comment(<<"-- Table: ", stmt.table, " (", "n", " rows)", "\n">>)>>
          ELSE <<>>)
         \o <<Statement(<<"INSERT INTO ", stmt.table, " (">>
                        \o comma_joined([c \in DOMAIN stmt.columns |-> <<stmt.columns[c]>>])
                        \o <<") VALUES", "\n">> \o values_list(stmt.rows)
                        \o <<";", "\n">>),
              Comment(<<"\n">>)>>

\* the write calls of "with open(combined_file, 'w')", in order
combined_writes(tables_listed, rows_of) ==
  LET statements == sql_statements(tables_listed, rows_of)
      of_kind(kind) ==
        Concat([i \in DOMAIN statements |->
                  IF statements[i].kind = kind
                  THEN statement_writes(statements[i], rows_of) ELSE <<>>])
  IN <<Comment(<<"-- ============================================", "\n">>),
       Comment(<<"-- BYU Courses Database - Supabase Import", "\n">>),
       Comment(<<"-- Generated: ", "now", "\n">>),
       Comment(<<"-- ============================================", "\n", "\n">>),
       Comment(<<"-- This file can be run directly in Supabase SQL Editor", "\n">>),
       Comment(<<"-- It will drop existing tables and recreate them with data",
                 "\n", "\n">>)>>
     \o step_header("-- Step 1: Drop existing tables")
     \o of_kind("drop") \o <<Comment(<<"\n">>)>>
     \o step_header("-- Step 2: Create tables")
     \o of_kind("create")
     \o step_header("-- Step 3: Create indexes")
     \o of_kind("index") \o <<Comment(<<"\n">>)>>
     \o step_header("-- Step 4: Insert data")
     \o of_kind("insert")

\* the text of sql_export/supabase_import.sql
combined_text(writes) == Concat([i \in DOMAIN writes |-> writes[i].text])

MaxValueLen == 3

ValueAlphabet == {"a", ";", "\n"}

\* the comment of the rating stored in the database
Comments == SeqsUpTo(ValueAlphabet, MaxValueLen)

\* main() has built a database with one professor and one rating of that
\* professor; nothing is exported yet and upload.py has no file to read
ImportInit ==
  /\ professors = <<>>
  /\ instructor_name = None
  /\ returned = {}
  /\ FreshRun
  /\ DatabaseCreated
  /\ BuildIdle /\ SimilarityIdle /\ NormalizeIdle /\ NicknameIdle /\ tag_string = None
  /\ FetchIdle
  /\ all_tables = tables_by_name(ToSet(TableNames))
  /\ \E comment \in Comments :
       table_rows =
         [t \in ToSet(all_tables) |->
            IF t = "professors" THEN sample_rows(t, 1)
            ELSE IF t = "ratings"
                 THEN <<[sample_row(t, 1) EXCEPT ![10] = SqlStr(comment)]>>
                 ELSE <<>>]
  /\ sql_script = <<>>
  /\ csv_files = <<>>
  /\ sql_value = SqlNone
  /\ sql_literal = <<>>
  /\ sql_file = None
  /\ db_failures \in {{}, {2}}
  /\ upload_pc = "idle"
  /\ connection = "none"
  /\ file_pos = 0
  /\ statement = <<>>
  /\ executed = <<>>
  /\ printed = <<>>

\* export_to_postgresql(conn): the combined file and its text
WriteCombinedFile ==
  /\ sql_script = <<>>
  /\ upload_pc = "idle"
  /\ sql_script' = sql_statements(all_tables, table_rows)
  /\ sql_file' = combined_text(combined_writes(all_tables, table_rows))
  /\ UNCHANGED <<match_vars, tables, run_vars, main_vars, build_vars, sim_vars, norm_vars,
                 nick_vars, tag_string, fetch_vars, all_tables, table_rows, csv_files, sql_value,
                 sql_literal, db_failures, upload_pc, connection, file_pos, statement,
                 executed, printed>>

ImportNext ==
  \/ WriteCombinedFile
  \/ Connect
  \/ ReadLine
  \/ FinishUpload

SpecImport == ImportInit /\ [][ImportNext]_vars

\* the interpreter keeps running the function until it returns
SpecUploadFair == SpecUpload /\ WF_vars(UploadNext)

\* ------------------------------------------------- fetch_all_professor_reviews
\* get_reviews.py: the pages of one professor's ratings are fetched until the
\* server reports the last one, and put together into one response.
MaxPages == 3
MaxEdges == 2

\* the edges the server may put on a page, told apart by their cursor
RatingEdges == { [cursor |-> "k1"], [cursor |-> "k2"] }
EdgeLists == UNION { [1..n -> RatingEdges] : n \in 0..MaxEdges }

\* pageInfo.endCursor: null, the empty string or a cursor
EndCursors == {"null", "", "c1", "c2"}

\* what response.json() may be: a page of a Teacher node, a Teacher whose
\* ratings are null or missing, another node, no node, and an error response
\* with "data": null or without data
ServerResponses ==
  { Response("object", "Teacher", "object", edges, hasNextPage, endCursor) :
      edges \in EdgeLists, hasNextPage \in BOOLEAN, endCursor \in EndCursors }
  \cup { Response("object", "Teacher", "null", <<>>, FALSE, "null"),
         Response("object", "Teacher", "absent", <<>>, FALSE, "null"),
         Response("object", "School", "absent", <<>>, FALSE, "null"),
         Response("object", "null", "absent", <<>>, FALSE, "null"),
         Response("null", "null", "absent", <<>>, FALSE, "null"),
         Response("absent", "null", "absent", <<>>, FALSE, "null") }

\* not teacher_data or teacher_data.get('__typename') != 'Teacher'
not_teacher(response) == response.node # "Teacher"

\* response.get('data', {}).get('node', {}) on "data": null, and
\* ratings_data.get on "ratings": null: AttributeError
data_raises(response) == response.data = "null"
ratings_raise(response) == response.ratings = "null"

\* not after_cursor, and the same test of fetch_professor_data
no_cursor(cursor) == cursor \in {"null", ""}

\* the page ends the loop: not has_next, or not after_cursor
last_page(response) == ~response.hasNextPage \/ no_cursor(response.endCursor)

\* the response put together after the loop: the teacher of the first response
\* with all the edges and a pageInfo of its own
combined_response(first, edges) ==
  [first EXCEPT !.ratings = "object",
                !.edges = edges,
                !.hasNextPage = FALSE,
                !.endCursor = IF edges = <<>> THEN "null" ELSE edges[Len(edges)].cursor,
                !.startCursor = IF edges = <<>> THEN "null" ELSE edges[1].cursor,
                !.hasPreviousPage = FALSE]

fetch_frame ==
  UNCHANGED <<match_vars, tables, run_vars, main_vars, build_vars, export_vars,
              sim_vars, norm_vars, nick_vars, tag_string, upload_vars>>

\* fetch_professor_data: the request carries "after" when there is a cursor,
\* and the server answers with a response of its choice
FetchProfessorData ==
  /\ fetch_pc = "request"
  /\ Len(fetched) < MaxPages
  /\ \E response \in ServerResponses :
       fetched' = Append(fetched,
                    [after |-> IF no_cursor(after_cursor) THEN "absent" ELSE after_cursor,
                     response |-> response])
  /\ fetch_pc' = "received"
  /\ UNCHANGED <<after_cursor, first_response, all_edges, fetch_result>>
  /\ fetch_frame

\* the rest of one iteration of the while loop, on the response just received
ReadPage ==
  /\ fetch_pc = "received"
  /\ LET response == fetched[Len(fetched)].response
         first == first_response = NoResponse
     IN /\ first_response' = IF first THEN response ELSE first_response
        /\ IF data_raises(response)
           THEN /\ fetch_pc' = "raised"
                /\ UNCHANGED <<after_cursor, all_edges, fetch_result>>
           ELSE IF first /\ not_teacher(response)
           THEN /\ fetch_pc' = "returned"
                /\ fetch_result' = response
                /\ UNCHANGED <<after_cursor, all_edges>>
           ELSE IF not_teacher(response)
           THEN /\ fetch_pc' = "finish"
                /\ UNCHANGED <<after_cursor, all_edges, fetch_result>>
           ELSE IF ratings_raise(response)
           THEN /\ fetch_pc' = "raised"
                /\ UNCHANGED <<after_cursor, all_edges, fetch_result>>
           ELSE /\ all_edges' = all_edges \o response.edges
                /\ after_cursor' = IF response.hasNextPage THEN response.endCursor
                                   ELSE after_cursor
                /\ fetch_pc' = IF last_page(response) THEN "finish" ELSE "request"
                /\ UNCHANGED fetch_result
  /\ UNCHANGED fetched
  /\ fetch_frame

\* after the loop: the first response, a Teacher, gets all the edges
ReturnReviews ==
  /\ fetch_pc = "finish"
  /\ fetch_pc' = "returned"
  /\ fetch_result' = IF ~not_teacher(first_response)
                     THEN combined_response(first_response, all_edges)
                     ELSE first_response
  /\ UNCHANGED <<after_cursor, first_response, all_edges, fetched>>
  /\ fetch_frame

fetch_all_professor_reviews == FetchProfessorData \/ ReadPage \/ ReturnReviews

FetchInit ==
  /\ professors = <<>>
  /\ instructor_name = None
  /\ returned = {}
  /\ FreshRun
  /\ DatabaseCreated
  /\ BuildIdle /\ ExportIdle /\ SimilarityIdle /\ NormalizeIdle /\ NicknameIdle
  /\ tag_string = None /\ UploadIdle
  /\ fetch_pc = "request"
  /\ after_cursor = "null"
  /\ first_response = NoResponse
  /\ all_edges = <<>>
  /\ fetched = <<>>
  /\ fetch_result = NoResponse

FetchNext == FetchProfessorData \/ ReadPage \/ ReturnReviews

\* Nothing stops the script between two steps: a response that has arrived is
\* read, and the loop that has ended returns. The server is not obliged to
\* answer.
SpecFetch == FetchInit /\ [][FetchNext]_vars /\ WF_vars(ReadPage) /\ WF_vars(ReturnReviews)

\* ------------------------------------------------- what the claims talk about
InstructorFirst == parse_name(instructor_name).first
InstructorLast == parse_name(instructor_name).last

\* candidate i (1-based) has both names non-empty after normalisation
Named(i) ==
  /\ normalize_name(professors[i].firstName) # <<>>
  /\ normalize_name(professors[i].lastName) # <<>>

\* the instructor string normalises to exactly "first last" of candidate i
NormalizesTo(i) ==
  /\ Named(i)
  /\ normalize_name(instructor_name)
       = normalize_name(professors[i].firstName) \o <<" ">>
         \o normalize_name(professors[i].lastName)

\* the exact rule fires for candidate i
ExactAt(i) ==
  /\ Named(i)
  /\ normalize_name(professors[i].firstName) = InstructorFirst
  /\ normalize_name(professors[i].lastName) = InstructorLast

\* the instructor's first name is a listed nickname of candidate i's first name
\* and the last names are equal
NicknameOf(i) ==
  /\ Named(i)
  /\ InstructorFirst \in NICKNAME_KEYS
  /\ NICKNAME_MAP[InstructorFirst] = normalize_name(professors[i].firstName)
  /\ InstructorLast = normalize_name(professors[i].lastName)

\* the nickname rule of the code fires for candidate i, under some hash seed
NicknameAt(i) ==
  /\ Named(i)
  /\ \E seed \in 0..(HashSeeds - 1) :
       nickname_rule(normalize_name(professors[i].firstName),
                     normalize_name(professors[i].lastName),
                     InstructorFirst, InstructorLast, seed)

\* the combined score of candidate i is at least 0.75
ScoreAtLeastThreeQuarters(i) ==
  LET s == candidate_score(professors[i], InstructorFirst, InstructorLast)
  IN 4 * s[1] >= 3 * s[2]

Called == returned # {}

\* C1: if the instructor string normalises to the exact first+last name of
\* exactly one candidate, that candidate's index is returned, wherever it sits
\* in the list and whatever the nickname table holds.
C1_ExactCandidateReturned ==
  \A r \in returned : \A i \in DOMAIN professors :
    (NormalizesTo(i) /\ \A j \in DOMAIN professors : j # i => ~NormalizesTo(j))
      => r.result = i - 1

\* C2 as written: if the instructor's first name is a nickname of candidate c's
\* first name and the last names are equal, the matcher returns c.
C2_NicknameCandidateReturned ==
  \A r \in returned : \A i \in DOMAIN professors :
    NicknameOf(i)
      => /\ r.result # NoMatch
         /\ professors[r.result + 1] = professors[i]

\* C2 as amended: such a candidate c is returned when no earlier-listed candidate
\* triggers the exact or the nickname rule; otherwise the earliest candidate
\* that triggers one of them is returned.
C2_NicknameCandidateReturnedUnlessEarlier ==
  \A r \in returned : \A i \in DOMAIN professors :
    (NicknameOf(i) /\ \A j \in 1..(i - 1) : ~ExactAt(j) /\ ~NicknameAt(j))
      => r.result = i - 1

\* the nickname rule alone decides: "Jack Doe" against John Doe scores only 0.7
C2_Witness ==
  /\ Called
  /\ \E i \in DOMAIN professors :
       /\ NicknameOf(i)
       /\ ~ExactAt(i)
       /\ ~ScoreAtLeastThreeQuarters(i)
       /\ \E r \in returned : r.result = i - 1

JSmith == <<"J","."," ","S","m","i","t","h">>

\* some candidate of the catalogue has a one-token first and last name
HoldsTwoTokenCandidate ==
  \E i \in DOMAIN professors :
    /\ Len(split(normalize_name(professors[i].firstName))) = 1
    /\ Len(split(normalize_name(professors[i].lastName))) = 1

C4_NoReturnBelowThreshold ==
  \A r \in returned :
    r.result # NoMatch =>
      LET i == r.result + 1 IN
        ExactAt(i) \/ NicknameAt(i) \/ ScoreAtLeastThreeQuarters(i)

\* a fuzzy return, with another named candidate left out for scoring too low
C4_Witness ==
  \E r \in returned :
    /\ r.result # NoMatch
    /\ LET i == r.result + 1 IN
         /\ ~ExactAt(i) /\ ~NicknameAt(i) /\ ScoreAtLeastThreeQuarters(i)
         /\ \E j \in DOMAIN professors :
              Named(j) /\ ~ScoreAtLeastThreeQuarters(j)

\* C5: calls with the same instructor string and the same candidate list return
\* the same result, whatever the hash seed of the process, and a call changes
\* neither the candidate list nor the instructor string.
C5_Deterministic ==
  /\ [](\A r1 \in returned : \A r2 \in returned : r1.result = r2.result)
  /\ [][professors' = professors /\ instructor_name' = instructor_name]_vars

\* two calls under different hash seeds, decided by the nickname rule
C5_Witness ==
  \E r1 \in returned : \E r2 \in returned :
    /\ r1.seed # r2.seed
    /\ r1.result # NoMatch
    /\ LET i == r1.result + 1 IN ~ExactAt(i) /\ NicknameAt(i)

\* ------------------------------------------- what the ingestion claims talk about
CourseIds == { db_courses[i].rowid : i \in DOMAIN db_courses }
ProfessorIds == { db_professors[i].rowid : i \in DOMAIN db_professors }

\* the rows of the table after the step whose row id the table did not hold before
NewSections == { i \in DOMAIN db_sections' :
                   \A j \in DOMAIN db_sections : db_sections[j].rowid # db_sections'[i].rowid }

\* the entry's professor id is missing, or no Professor row carries it
OwnerMissing(entry) ==
  \/ FalsyId(entry.id)
  \/ \A j \in DOMAIN db_professors : db_professors[j].rmp_id # entry.id

\* the step read one entry of ratings.json
ReadsRatingEntry == pc = "ratings" /\ records_read' = records_read + 1

\* C6 as written: within one run of insert_courses_and_sections the matcher is
\* run at most once for any raw instructor-name string, a failure to match being
\* cached like a match.
C6_MatcherRunsAtMostOncePerName ==
  \A name \in DOMAIN matcher_runs : matcher_runs[name] <= 1

\* C7: every Section row's course_id is the id of a Course row created before the
\* section was inserted, and every non-null Section.professor_id is the id of an
\* existing Professor row.
C7_SectionReferencesResolve ==
  /\ [](\A i \in DOMAIN db_sections :
          /\ db_sections[i].course_id \in CourseIds
          /\ db_sections[i].professor_id # SqlNull
               => db_sections[i].professor_id \in ProfessorIds)
  /\ [][\A i \in NewSections : db_sections'[i].course_id \in CourseIds]_vars

\* a course holds a section with a professor and a section without
C7_Witness ==
  \E i, j \in DOMAIN db_sections :
    /\ db_sections[i].course_id = db_sections[j].course_id
    /\ db_sections[i].professor_id # SqlNull
    /\ db_sections[j].professor_id = SqlNull

\* C8: every Rating row's professor_id is the id of a Professor row whose
\* external id is in the professor catalog; a rating entry whose professor id is
\* missing or has no Professor row produces no Rating row and no RatingTag row
\* and changes neither the count of ratings inserted nor the count of matched
\* names.
C8_RatingsBelongToCatalogProfessors ==
  /\ [](\A i \in DOMAIN db_ratings : \E j \in DOMAIN db_professors :
          /\ db_professors[j].rowid = db_ratings[i].professor_id
          /\ \E k \in DOMAIN professors : professors[k].id = db_professors[j].rmp_id)
  /\ [][(ReadsRatingEntry /\ OwnerMissing(rating_entry'))
          => /\ \A i \in DOMAIN db_ratings' : \E j \in DOMAIN db_ratings :
                  db_ratings[j] = db_ratings'[i]
             /\ \A i \in DOMAIN db_rating_tags' : \E j \in DOMAIN db_rating_tags :
                  db_rating_tags[j] = db_rating_tags'[i]
             /\ counters'.ratings_inserted = counters.ratings_inserted
             /\ counters'.tags_inserted = counters.tags_inserted
             /\ counters'.name_matches = counters.name_matches]_vars

\* ratings are stored, and the entry just read is a teacher without Professor row
C8_Witness ==
  /\ pc = "ratings"
  /\ db_ratings # <<>>
  /\ db_rating_tags # <<>>
  /\ rating_entry.data = "node"
  /\ rating_entry.typename = "Teacher"
  /\ rating_entry.edges # <<>>
  /\ OwnerMissing(rating_entry)

\* C9: at most one Professor row per external id, one Course row per course key,
\* one Section row per (course, section number) and one Rating row per external
\* rating id; a record carrying a key already present leaves the row of that key
\* as it was.
C9_OneRowPerKeyFirstWriteWins ==
  /\ [](/\ \A i, j \in DOMAIN db_professors :
             db_professors[i].rmp_id = db_professors[j].rmp_id => i = j
        /\ \A i, j \in DOMAIN db_courses :
             db_courses[i].course_key = db_courses[j].course_key => i = j
        /\ \A i, j \in DOMAIN db_sections :
             (/\ db_sections[i].course_id = db_sections[j].course_id
              /\ db_sections[i].section_number = db_sections[j].section_number)
               => i = j
        /\ \A i, j \in DOMAIN db_ratings :
             db_ratings[i].rmp_rating_id = db_ratings[j].rmp_rating_id => i = j)
  /\ [][/\ \A i \in DOMAIN db_professors : \A j \in DOMAIN db_professors' :
             db_professors'[j].rmp_id = db_professors[i].rmp_id
               => db_professors'[j] = db_professors[i]
        /\ \A i \in DOMAIN db_courses : \A j \in DOMAIN db_courses' :
             db_courses'[j].course_key = db_courses[i].course_key
               => db_courses'[j] = db_courses[i]
        /\ \A i \in DOMAIN db_sections : \A j \in DOMAIN db_sections' :
             (/\ db_sections'[j].course_id = db_sections[i].course_id
              /\ db_sections'[j].section_number = db_sections[i].section_number)
               => db_sections'[j] = db_sections[i]
        /\ \A i \in DOMAIN db_ratings : \A j \in DOMAIN db_ratings' :
             db_ratings'[j].rmp_rating_id = db_ratings[i].rmp_rating_id
               => db_ratings'[j] = db_ratings[i]]_vars

\* two professors of the catalog shared an id, a section number came twice in a
\* course and a rating id came twice: each time the first row is the one stored
C9_Witness ==
  /\ pc = "ratings"
  /\ \E i, j \in DOMAIN professors :
       /\ i < j
       /\ professors[i].id = professors[j].id
       /\ professors[i].firstName # professors[j].firstName
       /\ \E k \in DOMAIN db_professors :
            /\ db_professors[k].rmp_id = professors[i].id
            /\ db_professors[k].first_name = professors[i].firstName
  /\ counters.sections_inserted > Len(db_sections)
  /\ counters.ratings_inserted > Len(db_ratings)

\* C10 as written: no malformed or partial record is fatal; the run continues
\* with the remaining records.
C10_NoRecordIsFatal == pc # "crashed"

\* --------------------------------------------- what the pipeline claims talk about
NothingStored ==
  /\ db_professors = <<>> /\ db_courses = <<>> /\ db_sections = <<>>
  /\ db_section_times = <<>> /\ db_ratings = <<>> /\ db_rating_tags = <<>>
  /\ db_name_variants = <<>>

\* C11: if any of the three source documents cannot be read or parsed, the run
\* aborts with no partial success: it never gets past loading, no table is
\* created, no row is inserted and no export artifact is written.
C11_UnreadableSourceAborts ==
  /\ (\E f \in DOMAIN source_files : source_files[f] # "ok")
       => /\ pc \in {"load_professors", "load_courses", "load_ratings", "aborted"}
          /\ created_tables = {} /\ NothingStored /\ artifacts = {}
  /\ pc = "aborted" => \E f \in DOMAIN source_files : source_files[f] # "ok"

\* the run has aborted on the third file after loading the first two
C11_Witness ==
  /\ pc = "aborted"
  /\ source_files["byu_professors.json"] = "ok"
  /\ source_files["courses.json"] = "ok"
  /\ source_files["ratings.json"] = "malformed"

\* ------------------------------------------------- what the build claims talk about
\* the dict entries of a JSON list, and of a value that may be no list at all
dict_items(v) ==
  IF v.t = "list" THEN { v.items[i] : i \in { j \in DOMAIN v.items : v.items[j].t = "dict" } }
  ELSE {}

field_or_null(record, field) ==
  IF field \in DOMAIN record.fields THEN record.fields[field] ELSE Null

\* the course, section and time-block records of a course document
course_records(data) == { data[k] : k \in DOMAIN data }
section_records(data) ==
  UNION { dict_items(field_or_null(c, "sections")) : c \in course_records(data) }
time_records(data) ==
  UNION { dict_items(field_or_null(s, "times")) : s \in section_records(data) }

has_fields(records, fields) ==
  \A r \in records : ToSet(fields) \subseteq DOMAIN r.fields

\* new is old with the declared fields it lacked set to null; the field
\* 'nested' holds the records of the next level and is compared there
filled_from(old, new, fields, nested) ==
  /\ new.t = "dict"
  /\ DOMAIN new.fields = DOMAIN old.fields \cup ToSet(fields)
  /\ \A f \in DOMAIN new.fields :
       IF f \notin DOMAIN old.fields THEN new.fields[f] = Null
       ELSE f # nested => new.fields[f] = old.fields[f]

\* the records of list new are those of list old, one for one and in order
list_filled_from(old, new, fields, nested) ==
  IF old.t = "list" /\ truthy(old)
  THEN /\ new.t = "list"
       /\ Len(new.items) = Len(old.items)
       /\ \A i \in DOMAIN old.items :
            IF old.items[i].t = "dict"
            THEN filled_from(old.items[i], new.items[i], fields, nested)
            ELSE new.items[i] = old.items[i]
  ELSE new = old

times_filled_from(old, new) ==
  "times" \in DOMAIN old.fields
    => list_filled_from(old.fields["times"], new.fields["times"], time_fields, "")

sections_filled_from(old, new) ==
  "sections" \in DOMAIN old.fields
    => /\ list_filled_from(old.fields["sections"], new.fields["sections"],
                           section_fields, "times")
       /\ truthy(old.fields["sections"]) =>
            \A i \in DOMAIN old.fields["sections"].items :
              times_filled_from(old.fields["sections"].items[i],
                                new.fields["sections"].items[i])

C12_AllFieldsPresent ==
  build_pc \in {"normalized", "saved"}
    => /\ has_fields(course_records(courses_data), course_fields)
       /\ has_fields(section_records(courses_data), section_fields)
       /\ has_fields(time_records(courses_data), time_fields)

C12_OriginalOrNull ==
  build_pc' = "normalized" /\ build_pc # "normalized"
    => /\ DOMAIN courses_data' = DOMAIN courses_data
       /\ \A k \in DOMAIN courses_data :
            /\ filled_from(courses_data[k], courses_data'[k], course_fields, "sections")
            /\ sections_filled_from(courses_data[k], courses_data'[k])

\* C12: after normalize_schema every course record has every declared course
\* field, every section record every declared section field and every
\* time-block record every declared time field, and each field holds its
\* original value, or null where the record did not have it.
C12_EveryDeclaredFieldOriginalOrNull ==
  [] C12_AllFieldsPresent /\ [][C12_OriginalOrNull]_vars

\* a normalised document with a course that lacked course fields, a section
\* that lacked section fields and a time block that lacked time fields
C12_Witness ==
  /\ build_pc = "normalized"
  /\ normalized_count > 0
  /\ \E k \in DOMAIN courses_data :
       /\ courses_data[k].fields["curriculum_id"] = Text("4")
       /\ courses_data[k].fields["catalog_number"] = Null
       /\ \E s \in section_records(courses_data) :
            /\ s.fields["section_number"] = Text("003")
            /\ s.fields["honors"] = Null
            /\ s.fields["notes"] = Text("lab")
            /\ \E b \in dict_items(s.fields["times"]) :
                 b.fields["days"] = Text("T Th") /\ b.fields["room"] = Null

\* C13: normalize_schema is idempotent: run on the document it returned, it
\* raises nothing, inserts no null (its count is 0) and returns every record
\* as it was.
C13_NormalizeIdempotent ==
  build_pc \in {"normalized", "saved"}
    => /\ ~normalize_raises(courses_data)
       /\ normalize_schema(courses_data).count = 0
       /\ normalize_schema(courses_data).data = courses_data

\* the first run inserted nulls at all three levels of a document of two courses
C13_Witness ==
  /\ build_pc = "saved"
  /\ normalized_count > 0
  /\ Cardinality(DOMAIN courses_data) = 2
  /\ section_records(courses_data) # {}
  /\ time_records(courses_data) # {}
  /\ output_file = courses_data
  /\ \E b \in time_records(courses_data) : b.fields["building"] = Null

\* ---------------------------------------------- where the normaliser runs
NormalizerRuns == build_pc' = "normalized" /\ build_pc # "normalized"
CoursesWritten == output_file' # output_file
Exports == artifacts' # artifacts
SchemaBuilderNotStarted ==
  /\ pc \in {"load_professors", "load_courses", "aborted"}
  /\ created_tables = {}
  /\ NothingStored

\* C14 as stated: the normaliser runs once the Schema Builder has produced the
\* relational records, and the export follows it with no step in between.
C14_NormalizerBetweenBuilderAndExport ==
  [][ /\ NormalizerRuns => pc = "done"
      /\ Exports => build_pc = "normalized" ]_vars

\* C14, amended: the normaliser runs in build_courses.main on the course
\* document, before any step of the Schema Builder, and is the last step applied
\* to that document before it is written to courses.json; the export follows
\* the Schema Builder directly and writes the tables as the builder left them.
C14_NormalizerBeforeBuilder ==
  [][ /\ NormalizerRuns => SchemaBuilderNotStarted
      /\ CoursesWritten => /\ build_pc = "normalized"
                           /\ output_file' = courses_data
                           /\ SchemaBuilderNotStarted
      /\ Exports => /\ pc = "done"
                    /\ build_pc = "saved"
                    /\ tables' = tables ]_vars

\* an export of a database built from a courses.json that was normalised
C14_Witness ==
  /\ pc = "exported"
  /\ artifacts # {}
  /\ build_pc = "saved"
  /\ normalized_count > 0
  /\ output_file = courses_data
  /\ db_sections # <<>>

\* ------------------------------------------------ what the export claims talk about
\* the number a decimal text denotes, in tenths: [-]digits[.digit]
RECURSIVE digits_value(_)
digits_value(s) ==
  IF s = <<>> THEN 0
  ELSE 10 * digits_value(SubSeq(s, 1, Len(s) - 1))
         + (CHOOSE d \in 0..9 : Digits[d + 1] = s[Len(s)])

IsDigits(s) == s # <<>> /\ \A i \in DOMAIN s : s[i] \in ToSet(Digits)

unsigned_tenths(s) ==
  IF Len(s) >= 3 /\ s[Len(s) - 1] = "."
  THEN 10 * digits_value(SubSeq(s, 1, Len(s) - 2)) + digits_value(<<s[Len(s)]>>)
  ELSE 10 * digits_value(s)

IsDecimalText(s) ==
  LET body == IF s # <<>> /\ Head(s) = "-" THEN Tail(s) ELSE s
  IN \/ IsDigits(body)
     \/ /\ Len(body) >= 3
        /\ body[Len(body) - 1] = "."
        /\ IsDigits(SubSeq(body, 1, Len(body) - 2))
        /\ IsDigits(<<body[Len(body)]>>)

decimal_tenths(s) ==
  IF Head(s) = "-" THEN -unsigned_tenths(Tail(s)) ELSE unsigned_tenths(s)

\* in one pass over the string, every single quote and every backslash twice
RECURSIVE doubled(_)
doubled(s) ==
  IF s = <<>> THEN <<>>
  ELSE (IF Head(s) \in {"'", "\\"} THEN <<Head(s), Head(s)>> ELSE <<Head(s)>>)
         \o doubled(Tail(s))

\* the single quotes of a text come in pairs: read from the left, each quote
\* at an odd place among the quotes of its run is followed by another
RECURSIVE quotes_paired(_)
quotes_paired(s) ==
  IF s = <<>> THEN TRUE
  ELSE IF Head(s) # "'" THEN quotes_paired(Tail(s))
  ELSE Len(s) >= 2 /\ s[2] = "'" /\ quotes_paired(Tail(Tail(s)))



C16_Rendering ==
  CASE sql_value.t = "null" -> sql_literal = <<"N", "U", "L", "L">>
    [] sql_value.t = "bool" ->
         sql_literal = IF sql_value.b THEN <<"T", "R", "U", "E">>
                       ELSE <<"F", "A", "L", "S", "E">>
    [] sql_value.t = "int" ->
         IsDecimalText(sql_literal) /\ decimal_tenths(sql_literal) = 10 * sql_value.n
    [] sql_value.t = "float" ->
         CASE sql_value.kind = "nan" -> sql_literal = <<"N", "U", "L", "L">>
           [] sql_value.kind = "inf" ->
                sql_literal = <<"'", "I", "n", "f", "i", "n", "i", "t", "y", "'">>
           [] sql_value.kind = "-inf" ->
                sql_literal = <<"'", "-", "I", "n", "f", "i", "n", "i", "t", "y", "'">>
           [] OTHER ->
                IsDecimalText(sql_literal) /\ decimal_tenths(sql_literal) = sql_value.tenths
    [] sql_value.t = "str" ->
         /\ sql_literal = <<"'">> \o doubled(sql_value.s) \o <<"'">>
         /\ quotes_paired(SubSeq(sql_literal, 2, Len(sql_literal) - 1))

\* C16: escape_sql_string renders null as NULL, a boolean as TRUE or FALSE,
\* NaN as NULL, +infinity and -infinity as the quoted 'Infinity' and
\* '-Infinity', any other number as its decimal text, and a string between
\* single quotes with every single quote and every backslash doubled, so that
\* between the delimiters no single quote stands unpaired.
C16_EscapeRendersEveryKind == sql_literal # <<>> => C16_Rendering

\* a string with a single quote next to a backslash has been escaped
C16_Witness ==
  /\ sql_value = SqlStr(<<"a", "'", "\\">>)
  /\ sql_literal = <<"'", "a", "'", "'", "\\", "\\", "'">>

\* the tables of the statements of one kind, in script order
tables_of(kind) ==
  LET chosen == SelectSeq(sql_script, LAMBDA s : s.kind = kind)
  IN [i \in DOMAIN chosen |-> chosen[i].table]

\* positions in the script of the statements of a kind on a table
positions(kind, table) ==
  { i \in DOMAIN sql_script : sql_script[i].kind = kind /\ sql_script[i].table = table }

\* a sequence without its immediate repetitions
RECURSIVE squeezed(_)
squeezed(s) ==
  IF Len(s) < 2 THEN s
  ELSE IF s[1] = s[2] THEN squeezed(Tail(s))
  ELSE <<s[1]>> \o squeezed(Tail(s))

\* the fixed order, then the tables outside it, for the tables the database has
FixedThenOthers ==
  SelectSeq(<<"professors", "courses", "sections", "section_times", "ratings",
              "rating_tags", "professor_name_variants">>,
            LAMBDA t : t \in ToSet(all_tables))
    \o SelectSeq(all_tables, LAMBDA t : t \notin ToSet(TableNames))

Precedes(S, T) == \A i \in S, j \in T : i < j

C15_Order ==
  /\ tables_of("create") = FixedThenOthers
  /\ squeezed(tables_of("insert"))
       = SelectSeq(FixedThenOthers, LAMBDA t : table_rows[t] # <<>>)
  /\ tables_of("drop") = Reverse(tables_of("create"))
  /\ Precedes({ i \in DOMAIN sql_script : sql_script[i].kind = "drop" },
              { i \in DOMAIN sql_script : sql_script[i].kind = "create" })
  /\ \A fk \in ForeignKeys :
       /\ Precedes(positions("create", fk[2]), positions("create", fk[1]))
       /\ Precedes(positions("create", fk[2]), positions("insert", fk[1]))
       /\ Precedes(positions("insert", fk[2]), positions("insert", fk[1]))
       /\ Precedes(positions("drop", fk[1]), positions("drop", fk[2]))

\* C15: in the combined script the CREATE TABLE statements and the INSERT
\* batches follow the order professors, courses, sections, section_times,
\* ratings, rating_tags, professor_name_variants, any other table after these,
\* so a table a foreign key refers to is created and populated before the
\* table holding the key; the DROP statements are in the reverse of the
\* creation order.
C15_DependencyOrder == sql_script # <<>> => C15_Order

\* a database with tables outside the fixed list, every table populated
C15_Witness ==
  /\ sql_script # <<>>
  /\ ExtraTables \subseteq ToSet(all_tables)
  /\ \A t \in ToSet(all_tables) : table_rows[t] # <<>>
  /\ Head(sql_script) = [kind |-> "drop", table |-> "zz_scratch"]
  /\ sql_script[Len(sql_script)].table = "zz_scratch"
  /\ sql_script[Len(sql_script)].kind = "insert"

\* the INSERT statements of a table, in script order
inserts_of(table) ==
  SelectSeq(sql_script, LAMBDA s : s.kind = "insert" /\ s.table = table)

C17_Batches(table) ==
  LET n == Len(table_rows[table])
      stmts == inserts_of(table)
  IN /\ Len(stmts) = (n + 499) \div 500
     /\ \A k \in DOMAIN stmts :
          /\ Len(stmts[k].rows) <= 500
          /\ k < Len(stmts) => Len(stmts[k].rows) = 500
          /\ stmts[k].rows # <<>>
     /\ Concat([k \in DOMAIN stmts |-> stmts[k].rows])
          = [i \in 1..n |-> row_values(table_rows[table][i])]
     /\ n = 0 => stmts = <<>>

\* C17: for a table with n rows the exporter emits ceil(n/500) multi-row
\* INSERT statements, each of at most 500 rows and all but the last of exactly
\* 500; read in order the batches hold every row once, in the table's row
\* order, and a table with no rows gets no INSERT statement.
C17_BatchedInserts ==
  sql_script # <<>> => \A table \in ToSet(all_tables) : C17_Batches(table)

\* a table of 1001 rows went out in three statements, next to an empty table
C17_Witness ==
  /\ sql_script # <<>>
  /\ Len(table_rows["ratings"]) = 1001
  /\ Len(inserts_of("ratings")) = 3
  /\ Len(inserts_of("ratings")[3].rows) = 1
  /\ table_rows["professors"] = <<>>
  /\ inserts_of("professors") = <<>>

\* ---- re-parsing a CSV file: the records a reader of the excel dialect finds
IsNewline(c) == c \in {"\r", "\n"}

\* the position after the line ending that starts at i
after_newline(text, i) ==
  IF text[i] = "\r" /\ i < Len(text) /\ text[i + 1] = "\n" THEN i + 2 ELSE i + 1

\* one field from position i on: its text, and the position of the delimiter
\* or line ending that closes it (past the end of the text if nothing does)
RECURSIVE read_field(_, _, _, _)
read_field(text, i, state, field) ==
  IF i > Len(text) THEN [field |-> field, at |-> i]
  ELSE
    LET c == text[i] IN
    CASE state = "start_field" ->
           IF c = "," \/ IsNewline(c) THEN [field |-> <<>>, at |-> i]
           ELSE IF c = "\""
           THEN read_field(text, i + 1, "in_quoted_field", <<>>)
           ELSE read_field(text, i + 1, "in_field", <<c>>)
      [] state = "in_field" ->
           IF c = "," \/ IsNewline(c) THEN [field |-> field, at |-> i]
           ELSE read_field(text, i + 1, "in_field", Append(field, c))
      [] state = "in_quoted_field" ->
           IF c = "\""
           THEN read_field(text, i + 1, "quote_in_quoted_field", field)
           ELSE read_field(text, i + 1, "in_quoted_field", Append(field, c))
      [] state = "quote_in_quoted_field" ->
           IF c = "\""
           THEN read_field(text, i + 1, "in_quoted_field", Append(field, c))
           ELSE IF c = "," \/ IsNewline(c) THEN [field |-> field, at |-> i]
           ELSE read_field(text, i + 1, "in_field", Append(field, c))

\* the fields of one record from position i on, and the position of the line
\* ending that closes the record (past the end of the text if nothing does)
RECURSIVE read_record(_, _)
read_record(text, i) ==
  LET first == read_field(text, i, "start_field", <<>>)
      others == read_record(text, first.at + 1)
  IN IF first.at <= Len(text) /\ text[first.at] = ","
     THEN [fields |-> <<first.field>> \o others.fields, at |-> others.at]
     ELSE [fields |-> <<first.field>>, at |-> first.at]

\* the records from position i on; a line with nothing on it is a record
\* without fields
RECURSIVE read_records(_, _)
read_records(text, i) ==
  IF i > Len(text) THEN <<>>
  ELSE IF IsNewline(text[i]) THEN <<<<>>>> \o read_records(text, after_newline(text, i))
  ELSE LET record == read_record(text, i)
       IN IF record.at > Len(text) THEN <<record.fields>>
          ELSE <<record.fields>> \o read_records(text, after_newline(text, record.at))

csv_read(text) == read_records(text, 1)

\* a field read back stands for the value written: the same string, the text
\* of the same number, and the empty string for null
reads_as(field, value) ==
  CASE value.t = "null" -> field = <<>>
    [] value.t = "str" -> field = value.s
    [] value.t = "int" -> IsDecimalText(field) /\ decimal_tenths(field) = 10 * value.n
    [] value.t = "float" ->
         IF value.kind = "finite"
         THEN IsDecimalText(field) /\ decimal_tenths(field) = value.tenths
         ELSE field = csv_text(value)
    [] OTHER -> field = csv_text(value)

C18_RoundTrip(table) ==
  LET parsed == csv_read(csv_files[table])
      stored == table_rows[table]
      names == table_columns(table)
  IN /\ Len(parsed) = 1 + Len(stored)
     /\ parsed[1] = [c \in DOMAIN names |-> <<names[c]>>]
     /\ \A i \in DOMAIN stored :
          /\ Len(parsed[i + 1]) = Len(names)
          /\ \A c \in DOMAIN names : reads_as(parsed[i + 1][c], stored[i][c])

\* C18: export_to_csv writes for each table one header row of the column
\* names in the declared order and one row for each record, and reading the
\* file back gives, for every record and every field, the value that was
\* written, up to the representation of null: what comes back is text, and
\* null comes back as the empty text.
C18_CsvRoundTrip ==
  csv_files # <<>>
    => /\ DOMAIN csv_files = ToSet(all_tables)
       /\ \A table \in ToSet(all_tables) : C18_RoundTrip(table)

\* two records with commas, quotes and line breaks in their fields went out
C18_Witness ==
  /\ csv_files # <<>>
  /\ Len(table_rows["rating_tags"]) = 2
  /\ table_rows["rating_tags"][1][3] = SqlStr(<<"x", "\n", "y">>)
  /\ table_rows["rating_tags"][2][3] = SqlStr(<<"\"", ",", "\"", "\"">>)
  /\ table_rows["rating_tags"][2][2] = SqlStr(<<"\"">>)

\* ------------------------------------------ what the fuzzy-rule claim talks about
Score(i) == candidate_score(professors[i], InstructorFirst, InstructorLast)

NoImmediateMatch == \A i \in DOMAIN professors : ~ExactAt(i) /\ ~NicknameAt(i)

\* the candidates whose combined score is at least 0.75, and the best of them
Qualifying == { i \in DOMAIN professors : ScoreAtLeastThreeQuarters(i) }
TopScored == { i \in Qualifying : \A j \in Qualifying : ~Less(Score(i), Score(j)) }

\* C19: when no candidate of the whole list triggers the exact or the nickname
\* rule, the matcher returns the earliest-listed of the candidates that attain
\* the highest combined score of at least 0.75, a later candidate of equal
\* score never replacing it, and it returns no match when no candidate
\* reaches 0.75.
C19_EarliestBestAboveFloor ==
  \A r \in returned :
    NoImmediateMatch
      => r.result = IF Qualifying = {} THEN NoMatch ELSE Min(TopScored) - 1

\* two entries of the list tie at the top, with a score short of 1, and the
\* index of the earlier one is returned
C19_Witness ==
  /\ Called
  /\ NoImmediateMatch
  /\ \E i, j \in TopScored :
       /\ i < j
       /\ Less(Score(i), <<1, 1>>)
       /\ \A r \in returned : r.result = i - 1

\* ------------------------------------------- what the similarity claim talks about
InUnitInterval(x) == x[2] > 0 /\ 0 <= x[1] /\ x[1] <= x[2]

SameValue(x, y) == x[1] * y[2] = y[1] * x[2]

ShareToken(a, b) == ToSet(split(a)) \cap ToSet(split(b)) # {}

\* 1.0 for equal normalised forms, else the ratio, at least 0.7 if a token is shared
SimilarityOfForms(a, b) ==
  IF a = b THEN <<1, 1>>
  ELSE IF ShareToken(a, b) THEN FMax(ratio(a, b), <<7, 10>>)
  ELSE ratio(a, b)

\* C20 as stated: the value is in [0,1]; it is 1.0 whenever the two normalised
\* forms are identical, both being empty included, and otherwise the ratio of
\* the normalised strings, raised to at least 0.7 when they share a token.
C20_SimilarityOfNormalizedForms ==
  similarity # <<>>
    => /\ InUnitInterval(similarity)
       /\ SameValue(similarity,
                    SimilarityOfForms(normalize_name(name1), normalize_name(name2)))

\* C20, amended: the value is in [0,1]; it is 0.0 when either raw string is
\* empty; for two non-empty raw strings it is 1.0 whenever the normalised
\* forms are identical, both normalising to the empty string included, and
\* otherwise the ratio, raised to at least 0.7 when they share a token.
C20_SimilarityUnlessEmptyName ==
  similarity # <<>>
    => /\ InUnitInterval(similarity)
       /\ SameValue(similarity,
                    IF name1 = <<>> \/ name2 = <<>> THEN <<0, 1>>
                    ELSE SimilarityOfForms(normalize_name(name1), normalize_name(name2)))

\* two empty names score 0.0, and "." against " " (both normalise to the
\* empty string) would score 1.0
C20_Witness ==
  /\ name1 = <<>>
  /\ name2 = <<>>
  /\ similarity = <<0, 1>>
  /\ name_similarity(<<".">>, <<" ">>) = <<1, 1>>

\* ---------------------------------------------------------------- C21, C30
\* the whitespace-delimited tokens of the lower-cased raw name
RawTokens == IF Falsy(raw_name) THEN <<>> ELSE split(lower(raw_name))

\* a token of the suffix set, optionally followed by one period
IsSuffixToken(t) ==
  \/ t \in SUFFIXES
  \/ t # <<>> /\ t[Len(t)] = "." /\ SubSeq(t, 1, Len(t) - 1) \in SUFFIXES

FinalTokenIsSuffix == RawTokens # <<>> /\ IsSuffixToken(RawTokens[Len(RawTokens)])

\* the tokens without their periods, those that consisted of periods left out
PeriodFree(tokens) ==
  SelectSeq([i \in DOMAIN tokens |-> remove_periods(tokens[i])], LAMBDA t : t # <<>>)

\* the lower-cased, single-spaced, trimmed, period-free name without its final token
NameWithoutFinalToken ==
  join(PeriodFree(SubSeq(RawTokens, 1, Len(RawTokens) - 1)))

Occurrences(tokens, t) == Cardinality({ i \in DOMAIN tokens : tokens[i] = t })

\* C21: normalize_name returns the empty string for None and "", returns the
\* lower-cased, single-spaced, trimmed, period-free name without its final token
\* when that token is one of the suffix set (optionally followed by a period), and
\* keeps every suffix-set token that stands in a non-final position.
C21_TrailingSuffixRemoved ==
  normalized # None =>
    /\ Falsy(raw_name) => normalized = <<>>
    /\ FinalTokenIsSuffix => normalized = NameWithoutFinalToken
    /\ \A t \in SUFFIXES :
         Occurrences(split(normalized), t)
           >= Occurrences(SubSeq(RawTokens, 1, Len(RawTokens) - 1), t)

\* C30: normalize_name applied to its own result returns that result, and the
\* result has no period, no upper-case letter, no leading or trailing whitespace
\* and no run of two or more spaces.
C30_NormalizeIdempotentCanonical ==
  /\ renormalized # None => renormalized = normalized
  /\ normalized # None =>
       /\ \A i \in DOMAIN normalized :
            /\ normalized[i] # "."
            /\ normalized[i] \notin DOMAIN ToLower
       /\ strip(normalized) = normalized
       /\ \A i \in 1..(Len(normalized) - 1) :
            ~(normalized[i] = " " /\ normalized[i + 1] = " ")

\* ---------------------------------------------------------------------- C22
\* the name itself, its canonical form when it is a key of the table, and every
\* key of the table whose canonical form it is
Equivalents(t) ==
  {t}
    \cup { NICKNAME_MAP[k] : k \in {t} \cap DOMAIN NICKNAME_MAP }
    \cup { k \in DOMAIN NICKNAME_MAP : NICKNAME_MAP[k] = t }

NoRepeats(s) == \A i, j \in DOMAIN s : s[i] = s[j] => i = j

\* C22: expand_nickname(t) returns exactly t, the canonical form of t when t is a
\* key of the nickname table, and every key whose canonical form is t, each once;
\* and the matcher's test that two expansions share an element gives the same
\* answer with the two first names exchanged.
C22_ExpansionExactAndSymmetric ==
  variations_a # <<>> =>
    /\ ToSet(variations_a) = Equivalents(first_name_a)
    /\ ToSet(variations_b) = Equivalents(first_name_b)
    /\ NoRepeats(variations_a) /\ NoRepeats(variations_b)
    /\ first_names_match[1] = first_names_match[2]
    /\ first_names_match[1] <=>
         Equivalents(first_name_a) \cap Equivalents(first_name_b) # {}

\* robert (a canonical form with several informal forms) against bob (a key):
\* both calls were made and the expansions share an element
C22_Witness ==
  /\ variations_a # <<>>
  /\ first_name_a = <<"r","o","b","e","r","t">>
  /\ first_name_b = <<"b","o","b">>
  /\ Cardinality(ToSet(variations_a)) >= 3
  /\ ToSet(variations_b) = {first_name_a, first_name_b}
  /\ first_names_match = <<TRUE, TRUE>>

\* ---------------------------------------------------------------------- C23
\* the NameVariant rows that carry the raw string
VariantsOf(name) == { i \in DOMAIN db_name_variants : db_name_variants[i].variant_name = name }

\* the Professor row the raw string resolves to: the matcher's candidate, looked
\* up in the professors table by its external id (SqlNull: it does not resolve)
ResolvesTo(name) ==
  LET prof_idx == match_professor_name(name, professors, 0)
      rows == IF prof_idx = NoMatch THEN {}
              ELSE { i \in DOMAIN db_professors :
                       /\ ~FalsyId(professors[prof_idx + 1].id)
                       /\ db_professors[i].rmp_id = professors[prof_idx + 1].id }
  IN IF rows = {} THEN SqlNull ELSE db_professors[Min(rows)].rowid

\* the step resolved a raw string that had not been resolved before
FirstResolved(name) ==
  name \notin DOMAIN instructor_to_prof_id /\ name \in DOMAIN instructor_to_prof_id'

C23_VariantRows ==
  /\ \A i \in DOMAIN db_name_variants :
       /\ db_name_variants[i].source = "courses.json"
       /\ db_name_variants[i].match_confidence = <<9, 10>>
       /\ db_name_variants[i].professor_id # SqlNull
       /\ db_name_variants[i].professor_id = ResolvesTo(db_name_variants[i].variant_name)
       /\ VariantsOf(db_name_variants[i].variant_name) = {i}
  /\ \A i \in DOMAIN db_sections :
       /\ \A j \in VariantsOf(db_sections[i].instructor_name) :
            db_name_variants[j].professor_id = db_sections[i].professor_id
       /\ db_sections[i].professor_id # SqlNull
            => VariantsOf(db_sections[i].instructor_name) # {}
  /\ pc # "crashed" =>
       \A name \in DOMAIN instructor_to_prof_id : VariantsOf(name) # {}

C23_RecordedWhenFirstResolved ==
  pc' # "crashed" =>
    /\ Len(db_name_variants') <= Len(db_name_variants) + 1
    /\ SubSeq(db_name_variants', 1, Len(db_name_variants)) = db_name_variants
    /\ Len(db_name_variants') > Len(db_name_variants)
         <=> \E name \in DOMAIN instructor_to_prof_id' :
               /\ FirstResolved(name)
               /\ db_name_variants'[Len(db_name_variants')].variant_name = name

\* C23: a NameVariant row (professor id, raw string, 'courses.json', 0.9) is
\* recorded exactly in the step in which a raw instructor string is first
\* resolved to a Professor; there is one row per resolved raw string, none for a
\* string that does not resolve, and the row's professor id is the professor_id
\* of every Section row that carries the raw string.
C23_OneVariantPerResolvedName ==
  [] C23_VariantRows /\ [][C23_RecordedWhenFirstResolved]_vars

\* two Section rows of different courses carry the same raw string; it was
\* resolved once, and one NameVariant row with their professor id is stored
C23_Witness ==
  /\ pc = "ratings"
  /\ Len(db_name_variants) = 1
  /\ \E i, j \in DOMAIN db_sections :
       /\ i # j
       /\ db_sections[i].instructor_name = db_sections[j].instructor_name
       /\ db_sections[i].professor_id # SqlNull
       /\ db_sections[j].professor_id = db_name_variants[1].professor_id
       /\ VariantsOf(db_sections[i].instructor_name) = {1}
       /\ matcher_runs[db_sections[i].instructor_name] = 1

\* ---------------------------------------------------------------------- C24
\* the source section a Section row was made from: the section numbers and
\* instructor names of SectionRecords tell its members apart
SourceOf(row) ==
  CHOOSE section \in SectionRecords :
    /\ section.section_number = row.section_number
    /\ section.instructor_name = row.instructor_name

\* the time blocks of the source section's 'times' list (none when it is null)
SourceBlocks(section) ==
  IF section.times_type = "list" THEN section.times ELSE <<>>

\* the MeetingTime rows attached to the Section row, in the order of the table
TimesOf(section_id) ==
  SelectSeq(db_section_times, LAMBDA t : t.section_id = section_id)

SameBlock(row, block) ==
  /\ row.days = block.days
  /\ row.start_time = block.start_time
  /\ row.end_time = block.end_time
  /\ row.building = block.building
  /\ row.room = block.room

\* C24: the MeetingTime rows attached to a Section row are exactly one per time
\* block of the 'times' list of the source section that yielded the row, in
\* source order, with days, times, building and room copied; a section whose
\* 'times' is null or absent has no MeetingTime row.
C24_MeetingTimesAsInSource ==
  \A i \in DOMAIN db_sections :
    LET blocks == SourceBlocks(SourceOf(db_sections[i]))
        rows == TimesOf(db_sections[i].rowid)
    IN /\ Len(rows) = Len(blocks)
       /\ \A k \in DOMAIN rows : k \in DOMAIN blocks /\ SameBlock(rows[k], blocks[k])

\* ---------------------------------------------------------------------- C26
\* the step read one source section of the current course
ReadsSection ==
  pc = "courses" /\ course_db_id # SqlNull /\ course_db_id' = course_db_id
    /\ records_read' = records_read + 1

C26_Frame ==
  pc' # "crashed" =>
    /\ (ReadsSection /\ Len(db_sections') = Len(db_sections))
         => /\ db_section_times' = db_section_times
            /\ counters'.sections_inserted = counters.sections_inserted
    /\ ReadsRatingEntry
         => /\ counters'.ratings_inserted - counters.ratings_inserted
                 = Len(db_ratings') - Len(db_ratings)
            /\ \A i \in DOMAIN db_rating_tags' :
                 i > Len(db_rating_tags)
                   => \A j \in DOMAIN db_ratings :
                        db_ratings[j].rowid # db_rating_tags'[i].rating_id

\* C26: a source section whose (course, section number) key already exists and a
\* rating whose external id already exists are ignored as a whole: a step that
\* adds no Section row adds no MeetingTime row and leaves the count of sections
\* inserted as it was, and a step adds as many Rating rows as it counts ratings
\* inserted and attaches RatingTag rows to the Rating rows it added only.
C26_DuplicatesIgnoredAsAWhole == [][C26_Frame]_vars

\* ---------------------------------------------------------------------- C25
\* where the first of the delimiters starts in s (0: nowhere)
FirstCut(s, delimiters) ==
  LET starts == { i \in DOMAIN s :
                    \E d \in delimiters : i + Len(d) - 1 <= Len(s)
                                            /\ SubSeq(s, i, i + Len(d) - 1) = d }
  IN IF starts = {} THEN 0 ELSE Min(starts)

\* the segments of s between delimiters, left to right
RECURSIVE Segments(_, _)
Segments(s, delimiters) ==
  LET i == FirstCut(s, delimiters) IN
  IF i = 0 THEN <<s>>
  ELSE LET d == CHOOSE d \in delimiters :
                  i + Len(d) - 1 <= Len(s) /\ SubSeq(s, i, i + Len(d) - 1) = d
       IN <<SubSeq(s, 1, i - 1)>> \o Segments(SubSeq(s, i + Len(d), Len(s)), delimiters)

\* the trimmed segments that are not empty, in order
TrimmedSegments(s, delimiters) ==
  LET segments == IF Falsy(s) THEN <<>> ELSE Segments(s, delimiters)
  IN SelectSeq([i \in DOMAIN segments |-> strip(segments[i])], LAMBDA t : t # <<>>)

\* the tag names stored for the rating, in the order of the table
StoredTags == [i \in DOMAIN db_rating_tags |-> db_rating_tags[i].tag_name]

\* C25 as written: the rating's tag string is delimited by semicolons and by
\* double dashes; one RatingTag row is stored per trimmed segment that is not
\* empty, and none for an empty or null tag string.
C25_SplitAtSemicolonsAndDashes ==
  pc = "done" =>
    StoredTags = TrimmedSegments(tag_string, {<<";">>, <<"-", "-">>})

\* C25 amended: the tag string is delimited by the two characters "--" only (a
\* semicolon or a single dash is part of a tag); one RatingTag row is stored per
\* trimmed segment that is not empty, in order, so no RatingTag has an empty or
\* whitespace-only name, and an empty or null tag string yields no RatingTag.
C25_SplitAtDoubleDashes ==
  pc = "done" =>
    /\ StoredTags = TrimmedSegments(tag_string, {<<"-", "-">>})
    /\ counters.tags_inserted = Len(db_rating_tags)
    /\ \A i \in DOMAIN db_rating_tags :
         /\ db_rating_tags[i].rating_id = db_ratings[1].rowid
         /\ strip(db_rating_tags[i].tag_name) # <<>>
    /\ Falsy(tag_string) => db_rating_tags = <<>>

\* the string "a-- ;" was split at its double dash: the second segment was
\* trimmed and its semicolon was kept as a tag
C25_Witness ==
  /\ pc = "done"
  /\ tag_string = <<"a", "-", "-", " ", ";">>
  /\ StoredTags = << <<"a">>, <<";">> >>

\* ---------------------------------------------------------------------- C28
Blank == {" ", "\t", "\n"}

\* the positions of the semicolons of the text that end a statement: nothing
\* but blanks stands between the semicolon and the end of its line
Terminators(text) ==
  { i \in DOMAIN text :
      /\ text[i] = ";"
      /\ \E e \in i..Len(text) :
           /\ e = Len(text) \/ text[e] = "\n"
           /\ \A j \in (i + 1)..e : text[j] \in Blank
           /\ \A j \in i..(e - 1) : text[j] # "\n" }

\* where the line of position i ends
EndOfLine(text, i) ==
  IF \E e \in i..Len(text) : text[e] = "\n"
  THEN Min({ e \in i..Len(text) : text[e] = "\n" })
  ELSE Len(text)

\* the ends of the lines that end a statement, in file order
StatementEnds(text) ==
  LET ends == { EndOfLine(text, i) : i \in Terminators(text) }
  IN [k \in 1..Cardinality(ends) |->
        CHOOSE e \in ends : Cardinality({ d \in ends : d <= e }) = k]

\* the semicolon-terminated statements of the text: each runs from the end of
\* the statement before it to the end of its own last line
StatementsOf(text) ==
  LET ends == StatementEnds(text)
  IN [k \in DOMAIN ends |->
        SubSeq(text, (IF k = 1 THEN 0 ELSE ends[k - 1]) + 1, ends[k])]

\* the reports of the statements that raised, in order
ErrorReports ==
  SelectSeq(printed, LAMBDA p : p.message = "Error executing statement:")

\* the executed statements at which the server raised, in order
Raised ==
  LET at == { k \in DOMAIN executed : k \in db_failures }
  IN [n \in 1..Cardinality(at) |->
        executed[CHOOSE k \in at : Cardinality({ j \in at : j <= k }) = n]]

C28_Attempts ==
  /\ Len(executed) <= Len(StatementsOf(sql_file))
  /\ executed = SubSeq(StatementsOf(sql_file), 1, Len(executed))
  /\ Concat(executed) \o statement = SubSeq(sql_file, 1, file_pos)
  /\ [k \in DOMAIN ErrorReports |-> ErrorReports[k].statement] = Raised
  /\ upload_pc = "done" =>
       /\ executed = StatementsOf(sql_file)
       /\ connection = "closed"
       /\ printed # <<>> /\ printed[Len(printed)].message = "Done."
       /\ Terminators(statement) = {}
  /\ upload_pc # "done" =>
       \A k \in DOMAIN printed : printed[k].message # "Done."

C28_BufferReset ==
  /\ executed' # executed =>
       /\ Len(executed') = Len(executed) + 1
       /\ statement' = <<>>
  /\ connection = "closed" => connection' = "closed" /\ executed' = executed

\* C28: run_large_sql_file hands every semicolon-terminated statement of the file
\* to the database exactly once, in file order; a statement that raises is
\* reported and dropped, the buffer is emptied after every attempt and the later
\* statements are still executed; the function ends with the connection closed
\* and "Done." printed, and text after the last terminating semicolon is never
\* executed.
C28_EveryStatementAttemptedOnce ==
  /\ [] C28_Attempts
  /\ [][C28_BufferReset]_vars
  /\ <>(upload_pc = "done")

\* the first statement raised, a second one was executed after it, and the
\* file ended with text that no semicolon terminated
C28_Witness ==
  /\ upload_pc = "done"
  /\ Len(executed) = 2
  /\ 1 \in db_failures /\ 2 \notin db_failures
  /\ Len(ErrorReports) = 1
  /\ statement # <<>> /\ "a" \in ToSet(statement)

\* ---------------------------------------------------------------------- C27
\* the statements export_to_postgresql wrote, each with the comment and blank
\* lines written since the statement before it
RECURSIVE WithComments(_, _)
WithComments(writes, pending) ==
  IF writes = <<>> THEN <<>>
  ELSE IF Head(writes).kind = "comment"
       THEN WithComments(Tail(writes), pending \o Head(writes).text)
       ELSE <<pending \o Head(writes).text>> \o WithComments(Tail(writes), <<>>)

WrittenStatements == WithComments(combined_writes(all_tables, table_rows), <<>>)

\* C27: every text run_large_sql_file hands to the database is exactly one
\* statement written by export_to_postgresql, with its preceding comment lines,
\* in file order, also when a stored string holds line breaks or a line of it
\* ends with a semicolon.
C27_ChunksAreStatements ==
  upload_pc \in {"reading", "done"} =>
    /\ Len(executed) <= Len(WrittenStatements)
    /\ executed = SubSeq(WrittenStatements, 1, Len(executed))
    /\ upload_pc = "done" => executed = WrittenStatements

\* ------------------------------------------------------------------------- C29
\* the page is a Teacher node
TeacherPage(response) == response.data = "object" /\ response.node = "Teacher"

\* the page reports hasNextPage false, has no endCursor, or is no Teacher node
StoppingPage(response) ==
  \/ ~TeacherPage(response)
  \/ response.ratings # "object"
  \/ ~response.hasNextPage
  \/ response.endCursor \in {"null", ""}

\* the edges of the pages fetched, page after page
RECURSIVE EdgesOfPages(_)
EdgesOfPages(pages) ==
  IF pages = <<>> THEN <<>>
  ELSE (IF TeacherPage(Head(pages).response) /\ Head(pages).response.ratings = "object"
        THEN Head(pages).response.edges ELSE <<>>) \o EdgesOfPages(Tail(pages))

\* each request after the first carries the endCursor of the page before it,
\* and no page is requested after a stopping page
C29_FollowsCursor ==
  \A i \in DOMAIN fetched :
    IF i = 1 THEN fetched[i].after = "absent"
    ELSE /\ fetched[i].after = fetched[i - 1].response.endCursor
         /\ ~StoppingPage(fetched[i - 1].response)

\* what is returned: the first response itself when it is no Teacher node, and
\* otherwise a teacher with all the edges and hasNextPage false
C29_Returned ==
  fetch_pc = "returned" =>
    /\ StoppingPage(fetched[Len(fetched)].response)
    /\ IF TeacherPage(fetched[1].response)
       THEN /\ TeacherPage(fetch_result)
            /\ fetch_result.edges = EdgesOfPages(fetched)
            /\ ~fetch_result.hasNextPage
       ELSE fetch_result = fetched[1].response

\* a stopping page has arrived
C29_Stopped == fetch_pc = "received" /\ StoppingPage(fetched[Len(fetched)].response)

\* the first response has arrived and is no Teacher node
C29_FirstIsNoTeacher ==
  fetch_pc = "received" /\ Len(fetched) = 1 /\ ~TeacherPage(fetched[1].response)

\* the function has returned its first response as it came
C29_FirstReturned == fetch_pc = "returned" /\ fetch_result = fetched[1].response

\* C29: fetch_all_professor_reviews follows endCursor page by page and stops at
\* the first page that reports hasNextPage false, has no endCursor, or is not a
\* Teacher node; once the server returns such a page the loop terminates; the
\* returned teacher's ratings.edges is the in-order concatenation of the edges
\* of every fetched page, each page once, with pageInfo.hasNextPage false; a
\* first response that is not a Teacher node is returned unchanged.
C29_FetchesAllPages ==
  /\ [](C29_FollowsCursor /\ C29_Returned)
  /\ (C29_Stopped ~> (fetch_pc \in {"returned", "raised"}))
  /\ (C29_FirstIsNoTeacher ~> C29_FirstReturned)
====
